---- MODULE Spec2Model ----
(***************************************************************************)
(* A model of gonii, a NIfTI-1/NIfTI-2 reader, writer and voxel codec.     *)
(*                                                                         *)
(* Representation choices                                                  *)
(*  - A byte is an integer in 0..255; a byte string is a sequence.          *)
(*  - A float64 voxel value is a fixed-point number counted in halves:      *)
(*    the integer h stands for h/2, so that the float->integer              *)
(*    conversions of the codec truncate something.                          *)
(*  - A byte order is "LE", "BE" or "nil" (the zero binary.ByteOrder of a   *)
(*    Nii that was never parsed).                                           *)
(*  - A datatype is named by the suffix of its DT_ constant.                *)
(*  - A header is a record of its fields as they decode in the byte order   *)
(*    the file was written in; reading under the other order swaps.        *)
(***************************************************************************)
EXTENDS Integers, Sequences, FiniteSets, TLC

VARIABLES
    native,   \* system.NativeEndian of the process
    wrapNeg,  \* how this build converts a negative float to an unsigned int
    rd,       \* the NiiReader
    img,      \* the Nii the reader fills and the writer emits
    wr,       \* the NiiWriter
    sink,     \* what the writer last emitted
    ret,      \* the last operation and what it returned
    saved,    \* the Nii as it was when the last operation on it was called
    vox,      \* the Voxels grid last passed in or returned
    cx,       \* the voxel codec under test
    seg,      \* the Segmentation converter
    gr,       \* a Voxels grid under the grid operations
    rle       \* a SegmentRLE under Encode and Decode

vars == <<native, wrapNeg, rd, img, wr, sink, ret, saved, vox, cx, seg, gr, rle>>

----------------------------------------------------------------------------
(* Bounds                                                                  *)

\* magnitudes at or above Cap are all represented by Cap
Cap == 4194304

\* the largest magnitude of a 4- or 8-byte test value
BigVal == 70000

\* the largest Voxels grid, in voxels
MaxGridVox == 4

\* the longest sequence that is run-length encoded
MaxSeq == 5

\* the longest list of annotation coordinates
MaxAnn == 3

\* the number of bytes an input stream is longer than its header says
ExtraTail == 3

----------------------------------------------------------------------------
(* Bytes and integers                                                      *)

Min(a, b) == IF a < b THEN a ELSE b

Max(a, b) == IF a > b THEN a ELSE b

Reverse(s) == [i \in 1..Len(s) |-> s[Len(s) + 1 - i]]

Zeros(n) == [i \in 1..n |-> 0]

\* the w low bytes of the two's complement of n, least significant first
RECURSIVE BytesLE(_, _)
BytesLE(n, w) ==
    IF w = 0 THEN <<>> ELSE <<n % 256>> \o BytesLE(n \div 256, w - 1)

\* binary.ByteOrder.PutUintN: "nil" is the switch that matches no case
PutUint(n, w, bo) ==
    IF bo = "LE" THEN BytesLE(n, w)
    ELSE IF bo = "BE" THEN Reverse(BytesLE(n, w))
    ELSE Zeros(w)

\* the unsigned value of a most-significant-first byte string, capped
RECURSIVE UValBE(_, _)
UValBE(bs, acc) ==
    IF bs = <<>> THEN acc
    ELSE UValBE(Tail(bs), Min(acc * 256 + Head(bs), Cap))

\* binary.ByteOrder.UintN
GetUint(bs, bo) ==
    IF bo = "LE" THEN UValBE(Reverse(bs), 0)
    ELSE IF bo = "BE" THEN UValBE(bs, 0)
    ELSE 0

\* intN(v) of the unsigned v held in bs: the two's complement reading
GetInt(bs, bo) ==
    LET be == IF bo = "LE" THEN Reverse(bs) ELSE bs
    IN  IF bo = "nil" \/ bs = <<>> THEN 0
        ELSE IF be[1] >= 128
             THEN -(UValBE([i \in 1..Len(be) |-> 255 - be[i]], 0) + 1)
             ELSE UValBE(be, 0)

\* int16(x) of a wider integer
ToInt16(x) == ((x + 32768) % 65536) - 32768

----------------------------------------------------------------------------
(* Fixed-point voxel values                                                *)

Den == 2

FromInt(n) == Den * n

\* float -> integer conversion truncates toward zero
Trunc(h) == IF h >= 0 THEN h \div Den ELSE -((-h) \div Den)

\* uintN(voxel): a negative operand is outside the target type, and the
\* result is implementation-dependent: it wraps on amd64, it is 0 on arm64
FloatToUint(h, w, bo) ==
    IF Trunc(h) < 0 /\ ~wrapNeg THEN PutUint(0, w, bo)
    ELSE PutUint(Trunc(h), w, bo)

----------------------------------------------------------------------------
(* Datatype catalogue                                                      *)

Datatypes == {"UINT8", "INT8", "INT16", "UINT16", "INT32", "UINT32",
              "FLOAT32", "INT64", "UINT64", "FLOAT64"}

\* nByper of AssignDatatypeSize; any other code has size 0
AssignDatatypeSize(datatype) ==
    CASE datatype \in {"INT8", "UINT8"} -> 1
      [] datatype \in {"INT16", "UINT16"} -> 2
      [] datatype = "RGB24" -> 3
      [] datatype \in {"RGBA32", "INT32", "UINT32", "FLOAT32"} -> 4
      [] datatype \in {"COMPLEX64", "FLOAT64", "INT64", "UINT64"} -> 8
      [] datatype \in {"FLOAT128", "COMPLEX128"} -> 16
      [] datatype = "COMPLEX256" -> 32
      [] OTHER -> 0

----------------------------------------------------------------------------
(* Voxel codec                                                             *)

\* the rescaling divides by slope; the model keeps slope in {0, 1}, and
\* leaves out RGB24, the one datatype of 3 bytes per voxel
ConvertVoxelToBytes(voxel, slope, intercept, datatype, binaryOrder, nByPer) ==
    LET v == IF slope # 0 /\ datatype # "RGB24"
             THEN (voxel - FromInt(intercept)) \div slope ELSE voxel
    IN  CASE nByPer = 0 -> [err |-> "nByPer is 0", bytes |-> <<>>]
          [] nByPer = 1 ->
               [err |-> "nil",
                bytes |-> IF datatype = "UINT8" THEN FloatToUint(v, 1, "LE")
                          ELSE IF datatype = "INT8" THEN BytesLE(Trunc(v), 1)
                          ELSE <<>>]
          [] nByPer \in {2, 4, 8} ->
               [err |-> "nil", bytes |-> FloatToUint(v, nByPer, binaryOrder)]
          [] OTHER -> [err |-> "unsupported datatype", bytes |-> <<>>]

uint32ToFloat64(bs, bo, datatype) ==
    CASE datatype = "INT32" -> FromInt(GetInt(bs, bo))
      [] datatype \in {"UINT32", "FLOAT32"} -> FromInt(GetUint(bs, bo))
      [] OTHER -> 0

uint64ToFloat64(bs, bo, datatype) ==
    CASE datatype = "INT64" -> FromInt(GetInt(bs, bo))
      [] datatype \in {"UINT64", "FLOAT64"} -> FromInt(GetUint(bs, bo))
      [] OTHER -> 0

\* the decoding switch of GetAt on the NByPer bytes of one voxel
DecodeVoxel(dataPoint, datatype, bo, nByPer, slope, inter) ==
    LET value ==
          CASE nByPer = 1 -> FromInt(dataPoint[1])
            [] nByPer = 2 ->
                 (CASE datatype = "INT16" -> FromInt(GetInt(dataPoint, bo))
                    [] datatype = "UINT16" -> FromInt(GetUint(dataPoint, bo))
                    [] OTHER -> 0)
            [] nByPer = 4 -> uint32ToFloat64(dataPoint, bo, datatype)
            [] nByPer = 8 -> uint64ToFloat64(dataPoint, bo, datatype)
            [] OTHER -> 0
    IN  IF slope # 0 /\ datatype # "RGB24"
        THEN slope * value + FromInt(inter) ELSE value

----------------------------------------------------------------------------
(* Header records and byte streams                                         *)

\* NII1HeaderSize, NII2HeaderSize, DefaultHeaderPadding
NII1HeaderSize == 348

NII2HeaderSize == 540

DefaultHeaderPadding == 4

NIFTI_1_MAGIC_SINGLE == <<110, 43, 49, 0>>

NIFTI_1_MAGIC_PAIR == <<110, 105, 49, 0>>

NIFTI_2_MAGIC_SINGLE == <<110, 43, 50, 0, 13, 10, 26, 10>>

NIFTI_2_MAGIC_PAIR == <<110, 105, 50, 0, 13, 10, 26, 10>>

\* the encoded size of the struct: binary.Size(Nii1Header), binary.Size(Nii2Header)
StructSize(layout) == IF layout = 1 THEN 348 ELSE 540

\* a byte of the header region of a stream, whose value is not modelled
HdrByte == -1

\* the header of a stream that holds voxel bytes only
NoHdr == [layout |-> 0]

HdrLen(s) == IF s.hdr.layout = 0 THEN 0 ELSE StructSize(s.hdr.layout)

StreamLen(s) == HdrLen(s) + Len(s.tail)

\* the n bytes of stream s from the 0-based offset pos (all available)
StreamBytes(s, pos, n) ==
    [i \in 1..n |-> IF pos + i - 1 < HdrLen(s) THEN HdrByte
                    ELSE s.tail[pos + i - HdrLen(s)]]

\* an integer field of width w written in order fo, read in order bo
ReadInt(val, w, fo, bo) ==
    IF fo = bo THEN val ELSE GetInt(BytesLE(val, w), "BE")

\* the Go quotient, which truncates toward zero
Quot(a, b) == IF a >= 0 THEN a \div b ELSE -((-a) \div b)

\* binary.Read(hReader, order, &hSize) at the reader's current offset
ReadHSize(s, pos, bo) ==
    IF StreamLen(s) - pos <= 0 THEN [err |-> "EOF", val |-> 0, pos |-> pos]
    ELSE IF StreamLen(s) - pos < 4
         THEN [err |-> "unexpected EOF", val |-> 0, pos |-> StreamLen(s)]
    ELSE IF pos = 0 /\ s.hdr.layout # 0
         THEN [err |-> "nil", pos |-> 4,
               val |-> ReadInt(s.hdr.sizeof_hdr, 4, s.hdr.order, bo)]
    ELSE IF pos < HdrLen(s)
         \* offset 4: DataTypeUnused of a NIfTI-1 header, Magic of a NIfTI-2
         THEN [err |-> "nil", pos |-> pos + 4,
               val |-> IF s.hdr.layout = 1 THEN 0
                       ELSE GetInt(SubSeq(s.hdr.magic, 1, 4), bo)]
    ELSE [err |-> "nil", pos |-> pos + 4,
          val |-> GetInt(StreamBytes(s, pos, 4), bo)]

----------------------------------------------------------------------------
(* The image structure                                                     *)

\* &nifti.Nii{}: Dim[1] is dim[0]; N is <<Nx, Ny, Nz, Nt, Nu, Nv, Nw>>
EmptyNii ==
    [Version |-> 0, NDim |-> 0, N |-> <<0, 0, 0, 0, 0, 0, 0>>,
     Dim |-> <<0, 0, 0, 0, 0, 0, 0, 0>>, NVox |-> 0, NByPer |-> 0,
     Datatype |-> "UNKNOWN", SclSlope |-> 0, SclInter |-> 0,
     QformCode |-> 0, SformCode |-> 0, QuaternB |-> 0, QFac |-> 0,
     IntentP1 |-> 0, TOffset |-> 0, XYZUnits |-> 0, TimeUnits |-> 0,
     SliceCode |-> 0, SliceStart |-> 0, SliceEnd |-> 0, VoxOffset |-> 0,
     ByteOrder |-> "nil", Volume |-> <<>>]

----------------------------------------------------------------------------
(* Reader pipeline                                                         *)

\* the header stream and its offset: hReader when set, reader otherwise
HStream(r) == IF r.paired THEN r.hstream ELSE r.stream

HPos(r) == IF r.paired THEN r.hpos ELSE r.pos

SetHPos(r, p) == IF r.paired THEN [r EXCEPT !.hpos = p] ELSE [r EXCEPT !.pos = p]

VersionOf(hSize) ==
    IF hSize = NII1HeaderSize THEN 1 ELSE IF hSize = NII2HeaderSize THEN 2 ELSE 0

\* getVersion: the reader after the probe, and the error it returns
getVersion(r) ==
    LET first == ReadHSize(HStream(r), HPos(r), r.binaryOrder)
        r1    == SetHPos(r, first.pos)
        rBE   == [r1 EXCEPT !.binaryOrder = "BE"]
        again == ReadHSize(HStream(r), 0, "BE")
        r2    == SetHPos(rBE, again.pos)
    IN  IF first.err # "nil" THEN [err |-> first.err, rd |-> r1]
        ELSE IF VersionOf(first.val) # 0
             THEN [err |-> "nil", rd |-> [r1 EXCEPT !.version = VersionOf(first.val)]]
        ELSE IF again.err # "nil" THEN [err |-> again.err, rd |-> r2]
        ELSE IF VersionOf(again.val) # 0
             THEN [err |-> "nil", rd |-> [r2 EXCEPT !.version = VersionOf(again.val)]]
        ELSE [err |-> "invalid NIFTI file format", rd |-> r2]

\* the Magic field as binary.Read fills it for the given struct: a
\* Nii1Header read from the bytes of a Nii2Header takes bytes 344..347,
\* which hold the int32 QformCode
MagicAs(h, version) ==
    IF version = h.layout THEN h.magic
    ELSE IF version = 1 THEN PutUint(h.qform_code, 4, h.order)
    ELSE <<>>

Flip(bo) == IF bo = "LE" THEN "BE" ELSE "LE"

\* the product of Dim[1..NDim]; Dim has 8 elements, dim[8] is out of range
RECURSIVE NVoxOf(_, _)
NVoxOf(Dim, n) == IF n <= 0 THEN 1 ELSE NVoxOf(Dim, n - 1) * Dim[n + 1]

\* the coercion of one of Nz..Nw and its Dim entry
FixBad(n, d) == IF n <= 0 /\ d <= 0 THEN 1 ELSE n

\* binary.Read of the header struct in order bo.  getVersion has matched
\* sizeof_hdr under bo, and neither 348 nor 540 reads the same in both
\* orders, so bo is the order the header was written in; the integer
\* fields are swapped otherwise
DecodeHeader(h, bo, version) ==
    LET w == IF version = 1 THEN 2 ELSE 8
    IN  IF bo = h.order THEN h
        ELSE [h EXCEPT !.dim = [i \in 1..8 |-> ReadInt(h.dim[i], w, h.order, bo)],
                       !.bitpix = ReadInt(h.bitpix, 2, h.order, bo)]

\* parseData, on the header fields as decoded: the image it leaves, the
\* offset of the image reader, and the error (or panic) it ends with
parseData(r, im, h) ==
    LET v1 == r.version = 1
        xyz == h.xyzt_units % 8
        d  == h.dim
        d2 == [i \in 1..8 |-> IF i >= 4 THEN FixBad(d[i], d[i]) ELSE d[i]]
        im1 == [im EXCEPT
                  !.XYZUnits = xyz, !.TimeUnits = h.xyzt_units - xyz,
                  !.NDim = d[1], !.Dim = d2,
                  !.N = [i \in 1..7 |-> d2[i + 1]],
                  !.NByPer = AssignDatatypeSize(h.datatype),
                  !.IntentP1 = IF v1 THEN im.IntentP1 ELSE h.intent_p1,
                  !.QuaternB = h.quatern_b,
                  !.ByteOrder = r.binaryOrder]
        im2 == [im1 EXCEPT !.NVox = NVoxOf(d2, Min(d[1], 7))]
        statDim == IF d2[6] > 1 THEN d2[6] ELSE 1
        voxOffset == h.vox_offset
        im3 == [im2 EXCEPT
                  !.QformCode = IF h.qform_code <= 0 THEN 0 ELSE h.qform_code,
                  !.QFac = IF h.qform_code <= 0 THEN im.QFac
                           ELSE IF h.pixdim0 < 0 THEN -1 ELSE 1,
                  !.SformCode = IF h.sform_code <= 0 THEN 0 ELSE h.sform_code,
                  !.SclSlope = h.scl_slope, !.SclInter = h.scl_inter,
                  !.IntentP1 = IF v1 THEN h.intent_p1 ELSE 0,
                  !.QuaternB = IF v1 THEN h.quatern_b ELSE 0,
                  !.SliceCode = h.slice_code, !.SliceStart = h.slice_start,
                  !.SliceEnd = h.slice_end, !.Datatype = h.datatype,
                  !.VoxOffset = voxOffset]
        dataSize == d2[2] * d2[3] * d2[4] * d2[5] * statDim * Quot(h.bitpix, 8)
        avail == StreamLen(r.stream) - voxOffset
    IN  IF h.bitpix = 0
        THEN [err |-> "bitpix is zero", img |-> im1, rd |-> r]
        ELSE IF d[1] > 7
        THEN [err |-> "panic", img |-> im2, rd |-> r]
        ELSE IF voxOffset < 0
        THEN [err |-> "negative position", img |-> im3, rd |-> r]
        ELSE IF dataSize < 0
        THEN [err |-> "panic", img |-> im3, rd |-> [r EXCEPT !.pos = voxOffset]]
        ELSE IF dataSize > 0 /\ avail <= 0
        THEN [err |-> "EOF", img |-> im3, rd |-> [r EXCEPT !.pos = voxOffset]]
        ELSE IF dataSize > 0 /\ avail < dataSize
        THEN [err |-> "unexpected EOF", img |-> im3,
              rd |-> [r EXCEPT !.pos = StreamLen(r.stream)]]
        ELSE [err |-> "nil",
              img |-> [im3 EXCEPT !.Volume = StreamBytes(r.stream, voxOffset, dataSize)],
              rd |-> [r EXCEPT !.pos = voxOffset + dataSize]]

\* parseNIfTI: rewind, decode the header of the probed version, check the
\* magic, flip the order on a dim[0] outside [0,7], populate the image
parseNIfTI(r, im) ==
    LET hs   == HStream(r)
        h    == DecodeHeader(hs.hdr, r.binaryOrder, r.version)
        size == StructSize(r.version)
        rEnd == SetHPos(r, Min(size, StreamLen(hs)))
        magic == MagicAs(h, r.version)
        okMagic == IF r.version = 1
                   THEN magic = <<110, 43, 49, 0>> \/ magic = <<110, 105, 49, 0>>
                   ELSE magic = <<110, 43, 50, 0, 13, 10, 26, 10>>
        dim0 == h.dim[1]
        rDim == IF dim0 < 0 \/ dim0 > 7
                THEN [rEnd EXCEPT !.binaryOrder = Flip(rEnd.binaryOrder)] ELSE rEnd
        pd   == parseData(rDim, im, h)
    IN  IF r.version \notin {1, 2}
        THEN [err |-> "invalid version", img |-> im, rd |-> SetHPos(r, 0)]
        ELSE IF StreamLen(hs) < size
        THEN [err |-> "unexpected EOF", img |-> im, rd |-> rEnd]
        ELSE IF ~okMagic
        THEN [err |-> IF r.version = 1 THEN "invalid NIFTI-1 magic string"
                      ELSE "invalid NIFTI-2 magic string",
              img |-> im, rd |-> rEnd]
        ELSE IF pd.err # "nil" THEN pd
        ELSE [pd EXCEPT !.rd = IF r.retainHeader
                                THEN [pd.rd EXCEPT !.header = h] ELSE pd.rd]

\* Parse: getVersion, which also sets r.data.Version, then parseNIfTI
ParseOf(r, im) ==
    LET gv == getVersion(r)
    IN  IF gv.err # "nil" THEN [err |-> gv.err, img |-> im, rd |-> gv.rd]
        ELSE parseNIfTI(gv.rd, [im EXCEPT !.Version = gv.rd.version])

----------------------------------------------------------------------------
(* Voxel access                                                            *)

\* GetAt: the value at (x, y, z, t), or a panic when the slice expression
\* n.Volume[index*nByPer : (index+1)*nByPer] is out of range
GetAtOf(im, x, y, z, t) ==
    LET index == t * im.N[1] * im.N[2] * im.N[3] + im.N[1] * im.N[2] * z
                 + im.N[1] * y + x
        lo == index * im.NByPer
        hi == (index + 1) * im.NByPer
    IN  IF lo < 0 \/ hi < lo \/ hi > Len(im.Volume)
        THEN [err |-> "panic", val |-> 0]
        ELSE [err |-> "nil",
              val |-> DecodeVoxel(SubSeq(im.Volume, lo + 1, hi), im.Datatype,
                                  im.ByteOrder, im.NByPer, im.SclSlope, im.SclInter)]

\* GetTimeSeries: the bound on z is n.Nx; the series has one GetAt per t
\* below Dim[4], and a GetAt out of range panics
GetTimeSeriesOf(im, x, y, z) ==
    LET sliceX == im.N[1]
        sliceY == im.N[2]
        sliceZ == im.N[1]
        at(t) == GetAtOf(im, x, y, z, t)
    IN  IF im.Dim[5] < 0 THEN [err |-> "panic", val |-> <<>>]
        ELSE IF x >= sliceX THEN [err |-> "invalid x value", val |-> <<>>]
        ELSE IF y >= sliceY THEN [err |-> "invalid y value", val |-> <<>>]
        ELSE IF z >= sliceZ THEN [err |-> "invalid z value", val |-> <<>>]
        ELSE IF \E t \in 0..(im.Dim[5] - 1) : at(t).err # "nil"
        THEN [err |-> "panic", val |-> <<>>]
        ELSE [err |-> "nil", val |-> [t \in 1..im.Dim[5] |-> at(t - 1).val]]

Coords(nx, ny, nz, nt) ==
    {c \in (0..(nx - 1)) \X (0..(ny - 1)) \X (0..(nz - 1)) \X (0..(nt - 1)) : TRUE}

\* the coordinate stored at 0-based position i of the dataset
CoordAt(v, i) ==
    <<i % v.dimX, (i \div v.dimX) % v.dimY,
      (i \div (v.dimX * v.dimY)) % v.dimZ, i \div (v.dimX * v.dimY * v.dimZ)>>

NoVoxels == [dimX |-> 0, dimY |-> 0, dimZ |-> 0, dimT |-> 0,
             datatype |-> "UNKNOWN", voxel |-> <<>>]

\* GetVoxels: NewVoxels(Nx, Ny, Nz, Nt) filled with GetAt at every coordinate
GetVoxelsOf(im) ==
    LET nx == im.N[1]
        ny == im.N[2]
        nz == im.N[3]
        nt == im.N[4]
        shape == [dimX |-> nx, dimY |-> ny, dimZ |-> nz, dimT |-> nt,
                  datatype |-> im.Datatype, voxel |-> <<>>]
        len == nx * ny * nz * nt
        at(i) == LET c == CoordAt(shape, i) IN GetAtOf(im, c[1], c[2], c[3], c[4])
    IN  IF len < 0 THEN [err |-> "panic", vox |-> NoVoxels]
        ELSE IF nx > 0 /\ ny > 0 /\ nz > 0 /\ nt > 0
                /\ \E i \in 0..(len - 1) : at(i).err = "panic"
        THEN [err |-> "panic", vox |-> NoVoxels]
        ELSE [err |-> "nil",
              vox |-> [shape EXCEPT !.voxel =
                         IF nx > 0 /\ ny > 0 /\ nz > 0 /\ nt > 0
                         THEN [i \in 1..len |-> at(i - 1).val]
                         ELSE Zeros(Max(len, 0))]]

GetRawByteSize(v) ==
    v.dimX * v.dimY * v.dimZ * v.dimT * AssignDatatypeSize(v.datatype)

\* SetVoxelToRawVolume: every voxel converted with the image's parameters
\* and copied to its place in a fresh buffer, which replaces Volume
SetVoxelToRawVolumeOf(im, v) ==
    LET size == GetRawByteSize(v)
        nb   == im.NByPer
        enc(i) == ConvertVoxelToBytes(v.voxel[i], im.SclSlope, im.SclInter,
                                      im.Datatype, im.ByteOrder, nb)
        n    == Len(v.voxel)
    IN  IF size < 0 THEN [err |-> "panic", img |-> im]
        ELSE IF n > 0 /\ enc(1).err # "nil" THEN [err |-> enc(1).err, img |-> im]
        ELSE IF n * nb > size THEN [err |-> "panic", img |-> im]
        ELSE [err |-> "nil",
              img |-> [im EXCEPT !.Volume =
                         [k \in 1..size |->
                            LET i == ((k - 1) \div Max(nb, 1)) + 1
                                j == ((k - 1) % Max(nb, 1)) + 1
                            IN  IF i <= n /\ j <= Len(enc(i).bytes)
                                THEN enc(i).bytes[j] ELSE 0]]]

----------------------------------------------------------------------------
(* Writer pipeline                                                         *)

convertSpaceTimeToXYZT(xyzUnit, timeUnit) ==
    (xyzUnit % 8) + (((timeUnit \div 8) % 8) * 8)

\* the fields both converters fill the same way from the image
CommonFields(im) ==
    [datatype   |-> im.Datatype,
     bitpix     |-> ToInt16(8 * im.NByPer),
     scl_slope  |-> IF im.SclSlope # 0 THEN im.SclSlope ELSE 0,
     scl_inter  |-> IF im.SclSlope # 0 THEN im.SclInter ELSE 0,
     intent_p1  |-> im.IntentP1,
     xyzt_units |-> convertSpaceTimeToXYZT(im.XYZUnits, im.TimeUnits),
     toffset    |-> im.TOffset,
     quatern_b  |-> IF im.QformCode > 0 THEN im.QuaternB ELSE 0,
     pixdim0    |-> IF im.QformCode > 0 THEN (IF im.QFac >= 0 THEN 1 ELSE -1) ELSE 0]

convertImageToNii1Header(im, writeHeaderFile) ==
    LET voxOffset == im.VoxOffset
    IN  CommonFields(im) @@
        [layout |-> 1, order |-> native, sizeof_hdr |-> NII1HeaderSize,
         dim |-> <<ToInt16(im.NDim)>> \o [i \in 1..7 |-> ToInt16(im.N[i])],
         qform_code |-> IF im.QformCode > 0 THEN ToInt16(im.QformCode) ELSE 0,
         sform_code |-> IF im.SformCode > 0 THEN ToInt16(im.SformCode) ELSE 0,
         slice_code |-> im.SliceCode % 256,
         slice_start |-> ToInt16(im.SliceStart),
         slice_end |-> ToInt16(im.SliceEnd),
         magic |-> IF writeHeaderFile THEN <<110, 43, 49, 0>> ELSE <<110, 105, 49, 0>>,
         vox_offset |-> IF writeHeaderFile THEN 0
                        ELSE IF voxOffset - NII1HeaderSize <= 0
                             THEN NII1HeaderSize + DefaultHeaderPadding
                             ELSE voxOffset]

convertImageToNii2Header(im, writeHeaderFile) ==
    CommonFields(im) @@
    [layout |-> 2, order |-> native, sizeof_hdr |-> NII1HeaderSize,
     dim |-> <<im.NDim>> \o im.N,
     qform_code |-> IF im.QformCode > 0 THEN im.QformCode ELSE 0,
     sform_code |-> IF im.SformCode > 0 THEN im.SformCode ELSE 0,
     slice_code |-> im.SliceCode,
     slice_start |-> im.SliceStart,
     slice_end |-> im.SliceEnd,
     magic |-> IF writeHeaderFile THEN NIFTI_2_MAGIC_PAIR ELSE NIFTI_2_MAGIC_SINGLE,
     vox_offset |-> IF writeHeaderFile THEN 0
                    ELSE NII1HeaderSize + DefaultHeaderPadding]

NoStream == [hdr |-> NoHdr, tail |-> <<>>]

NoSink == [kind |-> "none", hdr |-> NoStream, img |-> NoStream, pad |-> 0]

\* writePairNii: the header struct to the header file, Volume to the image file
writePairNii(header, im) ==
    [kind |-> "pair", hdr |-> [hdr |-> header, tail |-> <<>>],
     img |-> [hdr |-> NoHdr, tail |-> im.Volume], pad |-> 0]

\* writeSingleNii: header, then VoxOffset - SizeofHdr zero bytes (4 when that
\* is not positive), then Volume
writeSingleNii(header, im) ==
    LET offsetFromHeaderToVoxel == header.vox_offset - header.sizeof_hdr
        pad == IF offsetFromHeaderToVoxel > 0 THEN offsetFromHeaderToVoxel
               ELSE DefaultHeaderPadding
    IN  [kind |-> "single", hdr |-> NoStream,
         img |-> [hdr |-> header, tail |-> Zeros(pad) \o im.Volume], pad |-> pad]

\* WriteToFile: the header is always converted from the image
WriteToFileOf(version, writeHeaderFile, im) ==
    LET header == IF version = 1 THEN convertImageToNii1Header(im, writeHeaderFile)
                  ELSE convertImageToNii2Header(im, writeHeaderFile)
    IN  IF version \notin {1, 2}
        THEN [err |-> "unknown NIfTI version", header |-> NoHdr, sink |-> NoSink]
        ELSE [err |-> "nil", header |-> header,
              sink |-> IF writeHeaderFile THEN writePairNii(header, im)
                       ELSE writeSingleNii(header, im)]

----------------------------------------------------------------------------
(* Test values                                                             *)

\* the least and greatest integer the model draws for an integer datatype
RangeOf(datatype) ==
    CASE datatype = "UINT8" -> <<0, 255>>
      [] datatype = "INT8" -> <<-128, 127>>
      [] datatype = "UINT16" -> <<0, 65535>>
      [] datatype = "INT16" -> <<-32768, 32767>>
      [] datatype \in {"UINT32", "UINT64"} -> <<0, BigVal>>
      [] OTHER -> <<-BigVal, BigVal>>

IsFloat(datatype) == datatype \in {"FLOAT32", "FLOAT64"}

\* values (in halves) of the representable range of a datatype
TestVals(datatype) ==
    LET r == RangeOf(datatype)
    IN  {FromInt(n) : n \in {r[1], r[2], 0, 1} \cup (IF r[1] < 0 THEN {-1} ELSE {})}
        \cup (IF IsFloat(datatype) THEN {1, 3, -3} ELSE {})

\* h is a value the datatype represents exactly
Representable(datatype, h) ==
    IF IsFloat(datatype) THEN h \in -FromInt(BigVal)..FromInt(BigVal)
    ELSE /\ h % Den = 0
         /\ datatype \in Datatypes
         /\ Trunc(h) >= RangeOf(datatype)[1]
         /\ Trunc(h) <= RangeOf(datatype)[2]

----------------------------------------------------------------------------
(* Input files                                                             *)

Plain ==
    [scl_slope |-> 0, scl_inter |-> 0, qform_code |-> 0, sform_code |-> 0,
     quatern_b |-> 0, pixdim0 |-> 0, intent_p1 |-> 0, toffset |-> 0,
     xyzt_units |-> 0, slice_code |-> 0, slice_start |-> 0, slice_end |-> 0]

Rich ==
    [scl_slope |-> 1, scl_inter |-> 3, qform_code |-> 1, sform_code |-> 2,
     quatern_b |-> 1, pixdim0 |-> -1, intent_p1 |-> 5, toffset |-> 7,
     xyzt_units |-> 10, slice_code |-> 1, slice_start |-> 0, slice_end |-> 1]

Profiles == {Plain, Rich}

BaseVariant ==
    [magic |-> "single", dim0 |-> 3, shape |-> <<2, 2, 1, 1, 1, 1, 1>>,
     dtbp |-> <<"INT16", 16>>, tail |-> 0, size |-> "ok"]

\* the base header with one of its factors varied
Variants ==
    {[BaseVariant EXCEPT !.magic = m] : m \in {"single", "pair", "bad"}}
    \cup {[BaseVariant EXCEPT !.dim0 = d] : d \in {-1, 0, 1, 4, 7, 8}}
    \cup {[BaseVariant EXCEPT !.shape = sh] :
             sh \in {<<2, 1, 1, 2, 1, 1, 1>>, <<2, 1, 0, 0, 0, 0, 0>>,
                     <<1, 1, 1, 1, 2, 1, 1>>, <<0, 1, 1, 1, 1, 1, 1>>,
                     <<-1, 1, 1, 1, 1, 1, 1>>, <<1, 1, 2, 1, 1, 1, 1>>}}
    \cup {[BaseVariant EXCEPT !.dtbp = p] :
             p \in {<<"UINT8", 8>>, <<"INT8", 8>>, <<"FLOAT32", 32>>,
                    <<"INT64", 64>>, <<"INT16", 8>>, <<"UINT8", 16>>,
                    <<"UINT8", 0>>, <<"UNKNOWN", 8>>, <<"UINT8", 4>>,
                    <<"UINT8", -8>>}}
    \cup {[BaseVariant EXCEPT !.tail = t] : t \in {-1, ExtraTail}}
    \cup {[BaseVariant EXCEPT !.size = "bad"]}

MagicOf(layout, kind) ==
    IF kind = "bad" THEN (IF layout = 1 THEN <<110, 43, 50, 0>>
                          ELSE <<110, 43, 49, 0, 13, 10, 26, 10>>)
    ELSE IF layout = 1
         THEN (IF kind = "single" THEN NIFTI_1_MAGIC_SINGLE ELSE NIFTI_1_MAGIC_PAIR)
         ELSE (IF kind = "single" THEN NIFTI_2_MAGIC_SINGLE ELSE NIFTI_2_MAGIC_PAIR)

Pattern(n) == [i \in 1..n |-> (i * 37 + 200) % 256]

\* the volume size a well-formed file with these fields carries
ExpSize(dim0shape, bitpix) ==
    LET d == [i \in 1..8 |-> IF i >= 4 /\ dim0shape[i] <= 0 THEN 1 ELSE dim0shape[i]]
    IN  d[2] * d[3] * d[4] * d[5] * (IF d[6] > 1 THEN d[6] ELSE 1) * Quot(bitpix, 8)

InputHeader(layout, order, prof, var, paired) ==
    prof @@
    [layout |-> layout, order |-> order,
     sizeof_hdr |-> IF var.size = "ok" THEN StructSize(layout) ELSE 100,
     magic |-> MagicOf(layout, var.magic),
     dim |-> <<var.dim0>> \o var.shape,
     datatype |-> var.dtbp[1], bitpix |-> var.dtbp[2],
     vox_offset |-> IF paired THEN 0 ELSE StructSize(layout) + DefaultHeaderPadding]

\* a single file, or a header file and an image file
Input(layout, order, prof, var, paired) ==
    LET h == InputHeader(layout, order, prof, var, paired)
        data == Pattern(Max(0, ExpSize(h.dim, h.bitpix) + var.tail))
    IN  IF paired
        THEN [paired |-> TRUE, hstream |-> [hdr |-> h, tail |-> <<>>],
              stream |-> [hdr |-> NoHdr, tail |-> data]]
        ELSE [paired |-> FALSE, hstream |-> NoStream,
              stream |-> [hdr |-> h, tail |-> Zeros(DefaultHeaderPadding) \o data]]

Inputs ==
    {Input(l, o, pr, v, pa) :
        l \in {1, 2}, o \in {"LE", "BE"}, pr \in Profiles, v \in Variants,
        pa \in BOOLEAN}

----------------------------------------------------------------------------
(* State                                                                   *)

\* new(nifti.NiiReader) with the defaults NewNiiReader sets, over an input
NewReader(in, retain, src) ==
    [state |-> "ready", src |-> src, paired |-> in.paired,
     hstream |-> in.hstream, stream |-> in.stream, hpos |-> 0, pos |-> 0,
     binaryOrder |-> "LE", version |-> 0, retainHeader |-> retain,
     header |-> NoHdr]

NoReader ==
    [NewReader([paired |-> FALSE, hstream |-> NoStream, stream |-> NoStream],
               FALSE, "none") EXCEPT !.state = "none"]

\* a writer with no header set; `given` is the header the options supplied
NoWriter == [version |-> 0, writeHeaderFile |-> FALSE, header |-> NoHdr,
             given |-> NoHdr]

NoCodec == [pc |-> "idle", dt |-> "UNKNOWN", bo |-> "nil", v |-> 0,
            bytes |-> <<>>, err |-> "nil", out |-> 0]

\* a Segmentation with nothing set; a nil header is NoHdr
NoSeg == [pc |-> "idle", nii1Hdr |-> NoHdr, nii2Hdr |-> NoHdr,
          annotations |-> <<>>, outFile |-> FALSE, err |-> "nil",
          vox |-> NoVoxels, rawImg |-> <<>>]

NoGrid == [pc |-> "idle", v |-> NoVoxels, orig |-> NoVoxels, ops |-> <<>>,
           segs |-> <<>>, err |-> "nil"]

\* the zero SegmentRLE
NoRLE == [pc |-> "idle", DecodedSeg |-> <<>>, EncodedSeg |-> <<>>,
          PixVal |-> 0, err |-> "nil", orig |-> <<>>]

NoRet == [op |-> "init", err |-> "nil", val |-> 0]

Idle ==
    /\ rd = NoReader /\ img = EmptyNii /\ wr = NoWriter /\ sink = NoSink
    /\ ret = NoRet /\ saved = EmptyNii
    /\ vox = [given |-> NoVoxels, got |-> NoVoxels]
    /\ cx = NoCodec
    /\ seg = NoSeg /\ gr = NoGrid /\ rle = NoRLE

Init ==
    /\ native \in {"LE", "BE"}
    /\ wrapNeg \in BOOLEAN
    /\ Idle

----------------------------------------------------------------------------
(* Operations                                                              *)

\* NewNiiReader(WithReadImageFile(..) [, WithReadHeaderFile(..)])
NewNiiReader(in) ==
    /\ ret.op = "init"
    /\ rd' = NewReader(in, FALSE, "input")
    /\ img' = EmptyNii
    /\ ret' = [op |-> "NewNiiReader", err |-> "nil", val |-> 0]
    /\ UNCHANGED <<native, wrapNeg, wr, sink, saved, vox, cx, seg, gr, rle>>

\* a new reader over the file or the file pair the writer emitted
ReadBack ==
    /\ ret.op = "WriteToFile" /\ ret.err = "nil"
    /\ rd' = NewReader([paired |-> sink.kind = "pair", hstream |-> sink.hdr,
                         stream |-> sink.img], FALSE, "sink")
    /\ img' = EmptyNii
    /\ ret' = [op |-> "NewNiiReader", err |-> "nil", val |-> 0]
    /\ UNCHANGED <<native, wrapNeg, wr, sink, saved, vox, cx, seg, gr, rle>>

Parse ==
    /\ ret.op = "NewNiiReader"
    /\ LET p == ParseOf(rd, img)
       IN  /\ rd' = p.rd
           /\ img' = p.img
           /\ ret' = [op |-> "Parse", err |-> p.err, val |-> 0]
    /\ UNCHANGED <<native, wrapNeg, wr, sink, saved, vox, cx, seg, gr, rle>>

Parsed == ret.op = "Parse" /\ ret.err = "nil"

GetAt(c) ==
    /\ Parsed
    /\ LET g == GetAtOf(img, c[1], c[2], c[3], c[4])
       IN  ret' = [op |-> "GetAt", err |-> g.err, val |-> g.val]
    /\ UNCHANGED <<native, wrapNeg, rd, img, wr, sink, saved, vox, cx, seg, gr, rle>>

GetVoxels ==
    /\ Parsed \/ (ret.op = "SetVoxelToRawVolume" /\ ret.err = "nil")
    /\ LET g == GetVoxelsOf(img)
       IN  /\ vox' = [vox EXCEPT !.got = g.vox]
           /\ ret' = [op |-> "GetVoxels", err |-> g.err,
                      val |-> IF ret.op = "Parse" THEN 0 ELSE 1]
    /\ UNCHANGED <<native, wrapNeg, rd, img, wr, sink, saved, cx, seg, gr, rle>>

\* grids of the image's shape and datatype: one value everywhere, or a ramp
Grids(im) ==
    LET n == im.N[1] * im.N[2] * im.N[3] * im.N[4]
        shape == [dimX |-> im.N[1], dimY |-> im.N[2], dimZ |-> im.N[3],
                  dimT |-> im.N[4], datatype |-> im.Datatype]
    IN  IF \E i \in 1..4 : im.N[i] <= 0 THEN {}
        ELSE IF n > MaxGridVox \/ im.Datatype \notin Datatypes THEN {}
        ELSE {shape @@ [voxel |-> [i \in 1..n |-> v]] : v \in TestVals(im.Datatype)}
             \cup {shape @@ [voxel |-> [i \in 1..n |-> FromInt(i)]]}

SetVoxelToRawVolume(g) ==
    /\ Parsed /\ rd.src = "input"
    /\ LET r == SetVoxelToRawVolumeOf(img, g)
       IN  /\ img' = r.img
           /\ ret' = [op |-> "SetVoxelToRawVolume", err |-> r.err, val |-> 0]
    /\ vox' = [given |-> g, got |-> NoVoxels]
    /\ UNCHANGED <<native, wrapNeg, rd, wr, sink, saved, cx, seg, gr, rle>>

\* SetAt: the range check, the conversion, then the copy into Volume; a
\* slice that starts below 0 passes the range check and panics
SetAtOf(im, newVal, x, y, z, t) ==
    LET index == t * im.N[1] * im.N[2] * im.N[3] + im.N[1] * im.N[2] * z
                 + im.N[1] * y + x
        nByPer == im.NByPer
        conv == ConvertVoxelToBytes(newVal, im.SclSlope, im.SclInter, im.Datatype,
                                    im.ByteOrder, im.NByPer)
    IN  IF index * nByPer > Len(im.Volume) \/ (index + 1) * nByPer > Len(im.Volume)
        THEN [err |-> "index out of range", img |-> im, index |-> index]
        ELSE IF conv.err # "nil"
        THEN [err |-> conv.err, img |-> im, index |-> index]
        ELSE IF index * nByPer < 0
        THEN [err |-> "panic", img |-> im, index |-> index]
        ELSE [err |-> "nil", index |-> index,
              img |-> [im EXCEPT !.Volume =
                        [k \in 1..Len(im.Volume) |->
                            IF k > index * nByPer /\ k <= (index + 1) * nByPer
                               /\ k - index * nByPer <= Len(conv.bytes)
                            THEN conv.bytes[k - index * nByPer]
                            ELSE im.Volume[k]]]]

\* coordinates at and around the corners of the image
SetCoords(im) ==
    {-1, 0, im.N[1] - 1, im.N[1]} \X {0, im.N[2] - 1, im.N[2]} \X {0} \X {0}

SetAt(newVal, c) ==
    /\ Parsed /\ rd.src = "input"
    /\ LET r == SetAtOf(img, newVal, c[1], c[2], c[3], c[4])
       IN  /\ img' = r.img
           /\ ret' = [op |-> "SetAt", err |-> r.err, val |-> r.index]
    /\ saved' = img
    /\ UNCHANGED <<native, wrapNeg, rd, wr, sink, vox, cx, seg, gr, rle>>

\* GetTimeSeries at (x, y, z); val keeps the coordinate with the series
GetTimeSeries(c) ==
    /\ Parsed /\ rd.src = "input"
    /\ LET g == GetTimeSeriesOf(img, c[1], c[2], c[3])
       IN  ret' = [op |-> "GetTimeSeries", err |-> g.err,
                   val |-> [c |-> c, series |-> g.val]]
    /\ UNCHANGED <<native, wrapNeg, rd, img, wr, sink, saved, vox, cx, seg, gr, rle>>

\* a predefined header, unlike the one the image converts to
SuppliedHeader(version) ==
    InputHeader(version, native, Rich,
                [BaseVariant EXCEPT !.shape = <<1, 3, 1, 1, 1, 1, 1>>,
                                    !.dtbp = <<"UINT16", 16>>], FALSE)

\* the headers the writer's options can supply: none, or a predefined one
GivenHeaders(version) ==
    {NoHdr} \cup (IF version \in {1, 2} THEN {SuppliedHeader(version)} ELSE {})

\* NewNiiWriter(WithWriteNIfTIData(img), WithWriteVersion(version),
\* WithWriteHeaderFile(pair) [, WithWriteNii1Header(given)]) and WriteToFile;
\* the conversion replaces w.header whatever the options had set
WriteToFile(version, pair, given) ==
    /\ Parsed /\ rd.src = "input"
    /\ LET w == WriteToFileOf(version, pair, img)
       IN  /\ wr' = [version |-> version, writeHeaderFile |-> pair,
                     header |-> IF version \in {1, 2} THEN w.header ELSE given,
                     given |-> given]
           /\ sink' = w.sink
           /\ ret' = [op |-> "WriteToFile", err |-> w.err, val |-> 0]
    /\ saved' = img
    /\ UNCHANGED <<native, wrapNeg, rd, img, vox, cx, seg, gr, rle>>

Next ==
    \/ \E in \in Inputs : NewNiiReader(in)
    \/ Parse
    \/ \E c \in Coords(img.N[1], img.N[2], img.N[3], img.N[4]) : GetAt(c)
    \/ GetVoxels
    \/ \E g \in Grids(img) : SetVoxelToRawVolume(g)
    \/ \E version \in {1, 2, 3}, pair \in BOOLEAN :
          \E given \in GivenHeaders(version) : WriteToFile(version, pair, given)
    \/ ReadBack
    \/ \E newVal \in {0, FromInt(1)} : \E c \in SetCoords(img) : SetAt(newVal, c)
    \/ \E c \in {0, img.N[1]} \X {0, img.N[2]} \X {0, img.N[3] - 1, img.N[3]} :
          GetTimeSeries(c)

Spec == Init /\ [][Next]_vars

----------------------------------------------------------------------------
(* The voxel codec on its own                                              *)

InitCodec ==
    /\ native = "LE"
    /\ wrapNeg \in BOOLEAN
    /\ rd = NoReader /\ img = EmptyNii /\ wr = NoWriter /\ sink = NoSink
    /\ ret = NoRet /\ saved = EmptyNii
    /\ vox = [given |-> NoVoxels, got |-> NoVoxels]
    /\ seg = NoSeg /\ gr = NoGrid /\ rle = NoRLE
    /\ \E dt \in Datatypes, bo \in {"LE", "BE"} : \E v \in TestVals(dt) :
          cx = [NoCodec EXCEPT !.pc = "init", !.dt = dt, !.bo = bo, !.v = v]

\* ConvertVoxelToBytes(v, 0, 0, dt, bo, nByPer(dt))
Encode ==
    /\ cx.pc = "init"
    /\ LET e == ConvertVoxelToBytes(cx.v, 0, 0, cx.dt, cx.bo, AssignDatatypeSize(cx.dt))
       IN  cx' = [cx EXCEPT !.pc = "encoded", !.bytes = e.bytes, !.err = e.err]
    /\ UNCHANGED <<native, wrapNeg, rd, img, wr, sink, ret, saved, vox, seg, gr, rle>>

\* GetAt(0, 0, 0, 0) on a one-voxel image whose Volume is the encoded bytes
Decode ==
    /\ cx.pc = "encoded" /\ cx.err = "nil"
    /\ LET im == [EmptyNii EXCEPT !.N = <<1, 1, 1, 1, 1, 1, 1>>, !.Datatype = cx.dt,
                                  !.NByPer = AssignDatatypeSize(cx.dt),
                                  !.ByteOrder = cx.bo, !.Volume = cx.bytes]
           g == GetAtOf(im, 0, 0, 0, 0)
       IN  cx' = [cx EXCEPT !.pc = "decoded", !.err = g.err, !.out = g.val]
    /\ UNCHANGED <<native, wrapNeg, rd, img, wr, sink, ret, saved, vox, seg, gr, rle>>

NextCodec == Encode \/ Decode

SpecCodec == InitCodec /\ [][NextCodec]_vars

----------------------------------------------------------------------------
(* Run-length coding                                                       *)

RECURSIVE RunEnd(_, _)
\* the last index of the run of equal values that starts at index i
RunEnd(original, i) ==
    IF i < Len(original) /\ original[i] = original[i + 1]
    THEN RunEnd(original, i + 1) ELSE i

RECURSIVE RunCounts(_, _)
\* the lengths, as float64 counts, of the runs from index i on
RunCounts(original, i) ==
    IF i > Len(original) THEN <<>>
    ELSE LET j == RunEnd(original, i)
         IN  <<FromInt(j - i + 1)>> \o RunCounts(original, j + 1)

\* RLEEncode without the leading 0 of a sequence that starts non-zero
RLEEncode_NoLead(original) ==
    IF Len(original) = 0 THEN [err |-> "array has length zero", enc |-> <<>>]
    ELSE [err |-> "nil", enc |-> RunCounts(original, 1)]

\* RLEEncode: run lengths, led by a 0 when the first value is not zero
RLEEncode(original) ==
    IF Len(original) = 0 THEN [err |-> "array has length zero", enc |-> <<>>]
    ELSE [err |-> "nil",
          enc |-> (IF original[1] # 0 THEN <<0>> ELSE <<>>) \o RunCounts(original, 1)]

RECURSIVE DecodeRuns(_, _, _)
\* SegmentRLE.Decode from the idx-th run on (idx counts from 0): int(length)
\* zeros for an even idx, PixVal for an odd one (the lengths RLEEncode
\* produces are never negative)
DecodeRuns(EncodedSeg, PixVal, idx) ==
    IF idx >= Len(EncodedSeg) THEN <<>>
    ELSE [i \in 1..Max(Trunc(EncodedSeg[idx + 1]), 0) |->
             IF idx % 2 = 0 THEN 0 ELSE PixVal]
         \o DecodeRuns(EncodedSeg, PixVal, idx + 1)

\* the sequences over 0 and two other values, of length 0..MaxSeq
RECURSIVE SeqsUpTo(_, _)
SeqsUpTo(S, n) ==
    IF n = 0 THEN {<<>>}
    ELSE LET shorter == SeqsUpTo(S, n - 1)
         IN  shorter \cup {Append(q, v) : q \in {x \in shorter : Len(x) = n - 1}, v \in S}

PixVals == {FromInt(1), 3}

InitRLE ==
    /\ native = "LE" /\ wrapNeg = FALSE
    /\ rd = NoReader /\ img = EmptyNii /\ wr = NoWriter /\ sink = NoSink
    /\ ret = NoRet /\ saved = EmptyNii
    /\ vox = [given |-> NoVoxels, got |-> NoVoxels]
    /\ cx = NoCodec /\ seg = NoSeg /\ gr = NoGrid
    /\ \E q \in SeqsUpTo({0} \cup PixVals, MaxSeq), pix \in PixVals :
          rle = [NoRLE EXCEPT !.pc = "init", !.DecodedSeg = q, !.PixVal = pix,
                              !.orig = q]

\* SegmentRLE.Encode
RLEEncodeSeg ==
    /\ rle.pc = "init"
    /\ LET e == RLEEncode(rle.DecodedSeg)
       IN  rle' = [rle EXCEPT !.pc = "encoded", !.err = e.err,
                              !.EncodedSeg = IF e.err = "nil" THEN e.enc ELSE @]
    /\ UNCHANGED <<native, wrapNeg, rd, img, wr, sink, ret, saved, vox, cx, seg, gr>>

\* SegmentRLE.Decode
RLEDecodeSeg ==
    /\ rle.pc = "encoded" /\ rle.err = "nil"
    /\ rle' = [rle EXCEPT !.pc = "decoded",
                          !.DecodedSeg = DecodeRuns(rle.EncodedSeg, rle.PixVal, 0)]
    /\ UNCHANGED <<native, wrapNeg, rd, img, wr, sink, ret, saved, vox, cx, seg, gr>>

NextRLE == RLEEncodeSeg \/ RLEDecodeSeg

SpecRLE == InitRLE /\ [][NextRLE]_vars

----------------------------------------------------------------------------
(* Voxels grids                                                            *)

\* Voxels.Set / Voxels.Get: the 0-based position of (x, y, z, t)
VoxIdx(v, x, y, z, t) ==
    t * v.dimZ * v.dimY * v.dimX + z * v.dimY * v.dimX + y * v.dimX + x

\* Voxels.Get
VoxGet(v, x, y, z, t) == v.voxel[VoxIdx(v, x, y, z, t) + 1]

\* a flip that moves the lower half up and leaves the upper half in place
SwapWith_LowerOnly(pos, dim) ==
    IF pos < Quot(dim, 2) THEN dim - 1 - pos ELSE pos

\* the partner an axis position is swapped with: the loop runs over the
\* positions below dim/2 and swaps each with dim-1-position
SwapWith(pos, dim) ==
    IF pos < Quot(dim, 2) \/ dim - 1 - pos < Quot(dim, 2) THEN dim - 1 - pos ELSE pos

FlipX(v) ==
    [v EXCEPT !.voxel = [i \in 1..Len(v.voxel) |->
        LET c == CoordAt(v, i - 1)
        IN  VoxGet(v, SwapWith(c[1], v.dimX), c[2], c[3], c[4])]]

FlipY(v) ==
    [v EXCEPT !.voxel = [i \in 1..Len(v.voxel) |->
        LET c == CoordAt(v, i - 1)
        IN  VoxGet(v, c[1], SwapWith(c[2], v.dimY), c[3], c[4])]]

FlipZ(v) ==
    [v EXCEPT !.voxel = [i \in 1..Len(v.voxel) |->
        LET c == CoordAt(v, i - 1)
        IN  VoxGet(v, c[1], c[2], SwapWith(c[3], v.dimZ), c[4])]]

\* GetSlice(z, t): x in the outer loop, y in the inner one
GetSlice(v, z, t) ==
    [k \in 1..(v.dimX * v.dimY) |->
        VoxGet(v, (k - 1) \div v.dimY, (k - 1) % v.dimY, z, t)]

\* MapValueOccurrence: the keys of the map
ValueKeys(v) == {v.voxel[i] : i \in 1..Len(v.voxel)}

\* the orders a range over a map of these keys can take
KeyOrders(K) ==
    {q \in [1..Cardinality(K) -> K] : \A a, b \in 1..Cardinality(K) : q[a] = q[b] => a = b}

\* the segments ImportAsRLE appends for slice (z, t) with the keys in order
SliceSegments(v, z, t, order) ==
    LET sliceData == GetSlice(v, z, t)
        keyArr(key) == [k \in 1..Len(sliceData) |->
                          IF sliceData[k] = key THEN key ELSE 0]
    IN  [n \in 1..Len(order) |->
            [EncodedSeg |-> RLEEncode(keyArr(order[n])).enc,
             DecodedSeg |-> sliceData, ZIndex |-> FromInt(z), TIndex |-> FromInt(t),
             PixVal |-> order[n]]]

RECURSIVE ImportFrom(_, _, _)
\* ImportAsRLE from the n-th slice on; slices go z outer, t inner, and
\* orders[n] is the order the map's non-zero keys came in for that slice
ImportFrom(v, orders, n) ==
    IF n > v.dimZ * v.dimT THEN <<>>
    ELSE SliceSegments(v, (n - 1) \div v.dimT, (n - 1) % v.dimT, orders[n])
         \o ImportFrom(v, orders, n + 1)

ImportAsRLE(v, orders) == ImportFrom(v, orders, 1)

\* one segment of ExportSingleFromRLE: Decode, then PixVal at every voxel of
\* the plane dimZ-1-ZIndex, for every t, whose decoded entry is not zero
ExportSegment(v, out, segment) ==
    LET dec == DecodeRuns(segment.EncodedSeg, segment.PixVal, 0)
    IN  [i \in 1..Len(out) |->
            LET c == CoordAt(v, i - 1)
            IN  IF c[3] = v.dimZ - 1 - Trunc(segment.ZIndex)
                   /\ dec[c[2] * v.dimX + c[1] + 1] # 0
                THEN segment.PixVal ELSE out[i]]

RECURSIVE ExportFrom(_, _, _, _)
ExportFrom(v, out, segments, n) ==
    IF n > Len(segments) THEN out
    ELSE ExportFrom(v, ExportSegment(v, out, segments[n]), segments, n + 1)

\* ExportSingleFromRLE: the receiver's voxels are replaced
ExportSingleFromRLE(v, segments) ==
    IF Len(segments) = 0 THEN [err |-> "segments has length 0", v |-> v]
    ELSE [err |-> "nil",
          v |-> [v EXCEPT !.voxel = ExportFrom(v, Zeros(Len(v.voxel)), segments, 1)]]

\* the shapes of at most MaxGridVox voxels
Shapes ==
    {sh \in (1..MaxGridVox) \X (1..MaxGridVox) \X (1..MaxGridVox) \X (1..MaxGridVox) :
        sh[1] * sh[2] * sh[3] * sh[4] <= MaxGridVox}

Labels == {0, FromInt(1), FromInt(2)}

GridsOf(sh) ==
    {[dimX |-> sh[1], dimY |-> sh[2], dimZ |-> sh[3], dimT |-> sh[4],
      datatype |-> "UINT8", voxel |-> q] :
        q \in [1..(sh[1] * sh[2] * sh[3] * sh[4]) -> Labels]}

InitGrid ==
    /\ native = "LE" /\ wrapNeg = FALSE
    /\ rd = NoReader /\ img = EmptyNii /\ wr = NoWriter /\ sink = NoSink
    /\ ret = NoRet /\ saved = EmptyNii
    /\ vox = [given |-> NoVoxels, got |-> NoVoxels]
    /\ cx = NoCodec /\ seg = NoSeg /\ rle = NoRLE
    /\ \E sh \in Shapes : \E g \in GridsOf(sh) :
          gr = [NoGrid EXCEPT !.pc = "grid", !.v = g, !.orig = g]

OtherThanGr == <<native, wrapNeg, rd, img, wr, sink, ret, saved, vox, cx, seg, rle>>

\* v.FlipX(), v.FlipY() or v.FlipZ(), at most twice
Flip1(axis) ==
    /\ gr.pc = "grid" /\ Len(gr.ops) < 2
    /\ gr' = [gr EXCEPT !.ops = Append(@, axis),
                        !.v = CASE axis = "X" -> FlipX(gr.v)
                                [] axis = "Y" -> FlipY(gr.v)
                                [] OTHER -> FlipZ(gr.v)]
    /\ UNCHANGED OtherThanGr

\* segments, err := v.ImportAsRLE()
ImportGrid ==
    /\ gr.pc = "grid" /\ gr.ops = <<>>
    /\ \E orders \in [1..(gr.v.dimZ * gr.v.dimT) -> KeyOrders(ValueKeys(gr.v) \ {0})] :
          gr' = [gr EXCEPT !.pc = "imported", !.segs = ImportAsRLE(gr.v, orders)]
    /\ UNCHANGED OtherThanGr

\* v.ExportSingleFromRLE(segments)
ExportGrid ==
    /\ gr.pc = "imported"
    /\ LET x == ExportSingleFromRLE(gr.v, gr.segs)
       IN  gr' = [gr EXCEPT !.pc = "exported", !.v = x.v, !.err = x.err]
    /\ UNCHANGED OtherThanGr

NextGrid ==
    \/ \E axis \in {"X", "Y", "Z"} : Flip1(axis)
    \/ ImportGrid
    \/ ExportGrid

SpecGrid == InitGrid /\ [][NextGrid]_vars

----------------------------------------------------------------------------
(* Segmentation converter                                                  *)

\* the loop that coerces dim[1..7] <= 0 to 1 in the header it was given
CoerceDims(hdr) ==
    [hdr EXCEPT !.dim = [i \in 1..8 |-> IF i > 1 /\ hdr.dim[i] <= 0 THEN 1 ELSE hdr.dim[i]]]

RECURSIVE MapAnnotations_SetAlways(_, _, _, _)
\* a loop that also sets the voxel of a value it enters in valMapper
MapAnnotations_SetAlways(vx, valMapper, annotations, i) ==
    IF i > Len(annotations) THEN [err |-> "nil", vox |-> vx]
    ELSE LET coord == annotations[i]
             idx == VoxIdx(vx, coord.X, coord.Y, coord.Z, coord.T)
         IN  IF idx < 0 \/ idx >= Len(vx.voxel)
             THEN [err |-> "panic", vox |-> vx]
             ELSE MapAnnotations_SetAlways(
                      [vx EXCEPT !.voxel[idx + 1] = FromInt(1)],
                      valMapper @@ (coord.Value :> FromInt(1)), annotations, i + 1)

RECURSIVE MapAnnotations(_, _, _, _)
\* the loop over s.annotations from the i-th on: byteCode is 1 in every
\* iteration; a value seen for the first time is entered in valMapper, a
\* value seen before has its voxel set to the mapped label
MapAnnotations(vx, valMapper, annotations, i) ==
    IF i > Len(annotations) THEN [err |-> "nil", vox |-> vx]
    ELSE LET coord == annotations[i]
             byteCode == FromInt(1)
             idx == VoxIdx(vx, coord.X, coord.Y, coord.Z, coord.T)
         IN  IF coord.Value \notin DOMAIN valMapper
             THEN MapAnnotations(vx, valMapper @@ (coord.Value :> byteCode),
                                 annotations, i + 1)
             ELSE IF idx < 0 \/ idx >= Len(vx.voxel)
             THEN [err |-> "panic", vox |-> vx]
             ELSE MapAnnotations(
                      [vx EXCEPT !.voxel[idx + 1] = valMapper[coord.Value]],
                      valMapper, annotations, i + 1)

\* the loop that converts every voxel to bytes and copies them into rawImg
RawImage(vx, hdr, nByPer) ==
    LET conv(i) == ConvertVoxelToBytes(vx.voxel[i], hdr.scl_slope, hdr.scl_inter,
                                       hdr.datatype, native, nByPer)
        size == GetRawByteSize(vx)
    IN  IF \E i \in 1..Len(vx.voxel) : conv(i).err # "nil"
        THEN [err |-> conv(CHOOSE i \in 1..Len(vx.voxel) : conv(i).err # "nil").err,
              rawImg |-> <<>>]
        ELSE [err |-> "nil",
              rawImg |-> [k \in 1..size |->
                  LET i == ((k - 1) \div Max(nByPer, 1)) + 1
                      j == ((k - 1) % Max(nByPer, 1)) + 1
                  IN  IF i <= Len(vx.voxel) /\ j <= Len(conv(i).bytes)
                      THEN conv(i).bytes[j] ELSE 0]]

\* the body the two converters share: hdr is the header of the target
\* version after the dim coercion, dtHdr the header whose Datatype sizes
\* the grid
ConvertSegmentation(s, hdr, dtHdr, version) ==
    LET vx0 == [dimX |-> hdr.dim[2], dimY |-> hdr.dim[3], dimZ |-> hdr.dim[4],
                dimT |-> hdr.dim[5], datatype |-> dtHdr.datatype,
                voxel |-> Zeros(hdr.dim[2] * hdr.dim[3] * hdr.dim[4] * hdr.dim[5])]
        mapped == MapAnnotations(vx0, <<>>, s.annotations, 1)
        nByPer == AssignDatatypeSize(dtHdr.datatype)
        raw == RawImage(mapped.vox, hdr, nByPer)
        w == WriteToFileOf(version, FALSE, [EmptyNii EXCEPT !.Volume = raw.rawImg])
        none == [err |-> "nil", vox |-> NoVoxels, rawImg |-> <<>>, wrote |-> FALSE,
                 w |-> [err |-> "nil", header |-> NoHdr, sink |-> NoSink]]
    IN  IF hdr.bitpix <= 0
        THEN [none EXCEPT !.err = "bitpix value must be larger than 0"]
        ELSE IF dtHdr.layout = 0
        THEN [none EXCEPT !.err = "panic"]
        ELSE IF mapped.err # "nil"
        THEN [none EXCEPT !.err = mapped.err]
        ELSE IF raw.err # "nil"
        THEN [none EXCEPT !.err = raw.err, !.vox = mapped.vox]
        ELSE [err |-> IF s.outFile THEN w.err ELSE "nil", vox |-> mapped.vox,
              rawImg |-> raw.rawImg, wrote |-> s.outFile, w |-> w]

\* convertSegmentationToNii1
convertSegmentationToNii1(s) ==
    ConvertSegmentation(s, CoerceDims(s.nii1Hdr), CoerceDims(s.nii1Hdr), 1)

\* convertSegmentationToNii2: the grid's datatype is read from s.nii1Hdr
convertSegmentationToNii2(s) ==
    ConvertSegmentation(s, CoerceDims(s.nii2Hdr), s.nii1Hdr, 2)

SegValues == {"a", "b"}

\* coordinates inside the 2x1x1x1 grid of the headers below
SegCoords ==
    {[Value |-> val, X |-> x, Y |-> 0, Z |-> 0, T |-> 0] : val \in SegValues, x \in {0, 1}}

SegHeader(layout, dtbp) ==
    InputHeader(layout, native, Plain,
                [BaseVariant EXCEPT !.shape = <<2, 1, 0, 0, 0, 0, 0>>, !.dtbp = dtbp],
                FALSE)

InitSeg ==
    /\ native \in {"LE", "BE"} /\ wrapNeg = FALSE
    /\ rd = NoReader /\ img = EmptyNii /\ wr = NoWriter /\ sink = NoSink
    /\ ret = NoRet /\ saved = EmptyNii
    /\ vox = [given |-> NoVoxels, got |-> NoVoxels]
    /\ cx = NoCodec /\ gr = NoGrid /\ rle = NoRLE
    /\ \E ann \in SeqsUpTo(SegCoords, MaxAnn), outFile \in BOOLEAN,
          h1 \in {NoHdr, SegHeader(1, <<"UINT8", 8>>), SegHeader(1, <<"UINT8", 0>>)},
          h2 \in {NoHdr, SegHeader(2, <<"INT16", 16>>)} :
          seg = [NoSeg EXCEPT !.pc = "init", !.annotations = ann,
                              !.outFile = outFile, !.nii1Hdr = h1, !.nii2Hdr = h2]

\* Segmentation.AnnotationJsonToNii; an annotation list never set is <<>>
AnnotationJsonToNii ==
    /\ seg.pc = "init"
    /\ LET two == seg.nii2Hdr.layout # 0
           c == IF two THEN convertSegmentationToNii2(seg)
                ELSE convertSegmentationToNii1(seg)
           early == IF seg.annotations = <<>> THEN "no input annotations is specified"
                    ELSE IF seg.nii1Hdr.layout = 0 /\ seg.nii2Hdr.layout = 0
                    THEN "at least one header structure must be specified"
                    ELSE "nil"
       IN  IF early # "nil"
           THEN /\ seg' = [seg EXCEPT !.pc = "done", !.err = early]
                /\ UNCHANGED <<wr, sink>>
           ELSE /\ seg' = [seg EXCEPT !.pc = "done", !.err = c.err, !.vox = c.vox,
                                      !.rawImg = c.rawImg,
                                      !.nii1Hdr = IF two THEN @ ELSE CoerceDims(@),
                                      !.nii2Hdr = IF two THEN CoerceDims(@) ELSE @]
                /\ wr' = IF c.wrote
                         THEN [version |-> IF two THEN 2 ELSE 1, writeHeaderFile |-> FALSE,
                               header |-> c.w.header,
                               given |-> IF two THEN CoerceDims(seg.nii2Hdr)
                                         ELSE CoerceDims(seg.nii1Hdr)]
                         ELSE wr
                /\ sink' = IF c.wrote THEN c.w.sink ELSE sink
    /\ UNCHANGED <<native, wrapNeg, rd, img, ret, saved, vox, cx, gr, rle>>

NextSeg == AnnotationJsonToNii

SpecSeg == InitSeg /\ [][NextSeg]_vars

----------------------------------------------------------------------------
(* Field setters of the image                                              *)

\* the keys of the slice-acquisition table (NIFTI_SLICE_UNKNOWN .. ALT_DEC2)
NiiSliceAcquistionInfo == 0..6

\* the keys of the orientation table (NIFTI_XFORM_UNKNOWN .. MNI_152)
NiiPatientOrientationInfo == 0..4

\* the keys of the datatype table
ValidDatatype == Datatypes \cup {"RGB24", "RGBA32"}

\* a string of n bytes, none of them NUL
Text(n) == [i \in 1..n |-> 97]

\* var b [w]byte; copy(b[:], s)
Pad(s, w) == [i \in 1..w |-> IF i <= Len(s) THEN s[i] ELSE 0]

\* an image with its three text fields
TextNii(descrip) ==
    [f \in DOMAIN EmptyNii \cup {"Descrip", "IntentName", "AuxFile"} |->
        CASE f = "Descrip" -> Pad(descrip, 80)
          [] f = "IntentName" -> Zeros(16)
          [] f = "AuxFile" -> Zeros(24)
          [] OTHER -> EmptyNii[f]]

\* the codes and the strings the setters are called with
Codes == {-1, 0, 1, 4, 99}

Texts == {Text(n) : n \in {0, 1, 15, 16, 23, 24, 25, 79, 80}}

InitSet ==
    /\ native = "LE" /\ wrapNeg = FALSE
    /\ rd = NoReader /\ wr = NoWriter /\ sink = NoSink
    /\ ret = NoRet /\ saved = EmptyNii
    /\ vox = [given |-> NoVoxels, got |-> NoVoxels]
    /\ cx = NoCodec /\ seg = NoSeg /\ gr = NoGrid /\ rle = NoRLE
    /\ \E sFormCode \in {0, 2, 99}, qFormCode \in {0, 99}, descrip \in {Text(0), Text(3)} :
          img = [TextNii(descrip) EXCEPT !.SformCode = sFormCode,
                                         !.QformCode = qFormCode]

\* one call of a setter on the image as constructed: ok is the setter's
\* test, im the image it leaves when the test passes
Setter(op, arg, ok, im) ==
    /\ saved' = img
    /\ img' = IF ok THEN im ELSE img
    /\ ret' = [op |-> op, err |-> IF ok THEN "nil" ELSE "rejected", val |-> arg]
    /\ UNCHANGED <<native, wrapNeg, rd, wr, sink, vox, cx, seg, gr, rle>>

SetSliceCode(sliceCode) ==
    /\ ret.op = "init"
    /\ Setter("SetSliceCode", sliceCode, sliceCode \in NiiSliceAcquistionInfo,
              [img EXCEPT !.SliceCode = sliceCode])

SetQFormCode(qFormCode) ==
    /\ ret.op = "init"
    /\ Setter("SetQFormCode", qFormCode, qFormCode \in NiiPatientOrientationInfo,
              [img EXCEPT !.QformCode = qFormCode])

SetSFormCode(sFormCode) ==
    /\ ret.op = "init"
    /\ Setter("SetSFormCode", sFormCode, img.SformCode \in NiiPatientOrientationInfo,
              [img EXCEPT !.SformCode = sFormCode])

SetDatatype(datatype) ==
    /\ ret.op = "init"
    /\ Setter("SetDatatype", datatype, datatype \in ValidDatatype,
              [img EXCEPT !.Datatype = datatype])

SetDescrip(descrip) ==
    /\ ret.op = "init"
    /\ Setter("SetDescrip", descrip, ~(Len(descrip) > 79),
              [img EXCEPT !.Descrip = Pad(descrip, 80)])

SetIntentName(intentName) ==
    /\ ret.op = "init"
    /\ Setter("SetIntentName", intentName, ~(Len(intentName) > 15),
              [img EXCEPT !.IntentName = Pad(intentName, 16)])

SetAuxFile(auxFile) ==
    /\ ret.op = "init"
    /\ Setter("SetAuxFile", auxFile, ~(Len(auxFile) > 24),
              [img EXCEPT !.AuxFile = Pad(auxFile, 24)])

\* the setter behind NiiWriter.SetIntentName
setIntentName(intentName) ==
    /\ ret.op = "init"
    /\ Setter("setIntentName", intentName, ~(Len(intentName) > 15),
              [img EXCEPT !.Descrip = Pad(intentName, 80)])

NextSet ==
    \/ \E c \in Codes : SetSliceCode(c)
    \/ \E c \in Codes : SetQFormCode(c)
    \/ \E c \in Codes : SetSFormCode(c)
    \/ \E d \in {"UINT8", "FLOAT32", "NOTYPE"} : SetDatatype(d)
    \/ \E s \in Texts : SetDescrip(s)
    \/ \E s \in Texts : SetIntentName(s)
    \/ \E s \in Texts : SetAuxFile(s)
    \/ \E s \in Texts : setIntentName(s)

SpecSet == InitSet /\ [][NextSet]_vars

----------------------------------------------------------------------------
(* A reader that is parsed more than once                                  *)

\* the files a reader is given: well formed, with an unrecognised
\* sizeof_hdr, with a dim[0] outside [0,7], with bytes after the voxels
ProbeVariants ==
    {BaseVariant, [BaseVariant EXCEPT !.size = "bad"],
     [BaseVariant EXCEPT !.dim0 = -1], [BaseVariant EXCEPT !.dim0 = 8],
     [BaseVariant EXCEPT !.tail = ExtraTail]}

ProbeInputs ==
    {Input(l, o, Plain, v, pa) :
        l \in {1, 2}, o \in {"LE", "BE"}, v \in ProbeVariants, pa \in BOOLEAN}

\* SetReader(bytes.NewReader(..)): another image stream, at offset 0
SetReader(in) ==
    /\ ret.op = "Parse"
    /\ ~in.paired
    /\ rd' = [rd EXCEPT !.stream = in.stream, !.pos = 0, !.src = "retry"]
    /\ ret' = [op |-> "SetReader", err |-> "nil", val |-> ret.err]
    /\ UNCHANGED <<native, wrapNeg, img, wr, sink, saved, vox, cx, seg, gr, rle>>

\* Parse called again on the reader; val keeps the error of the first call
ParseAgain ==
    /\ ret.op \in {"Parse", "SetReader"}
    /\ LET p == ParseOf(rd, img)
       IN  /\ rd' = p.rd
           /\ img' = p.img
           /\ ret' = [op |-> "ParseAgain", err |-> p.err,
                      val |-> IF ret.op = "Parse" THEN ret.err ELSE ret.val]
    /\ saved' = img
    /\ UNCHANGED <<native, wrapNeg, wr, sink, vox, cx, seg, gr, rle>>

NextProbe ==
    \/ \E in \in ProbeInputs : NewNiiReader(in)
    \/ Parse
    \/ \E in \in ProbeInputs : SetReader(in)
    \/ ParseAgain

SpecProbe == Init /\ [][NextProbe]_vars

----------------------------------------------------------------------------
(* The xyzt_units byte                                                     *)

InitUnits ==
    /\ native = "LE" /\ wrapNeg = FALSE
    /\ Idle

\* parseData on a header whose XyztUnits is v: the two unit fields
SplitUnits(v) ==
    /\ cx.pc = "idle"
    /\ img' = [img EXCEPT !.XYZUnits = v % 8, !.TimeUnits = v - (v % 8)]
    /\ cx' = [cx EXCEPT !.pc = "split", !.v = v]
    /\ UNCHANGED <<native, wrapNeg, rd, wr, sink, ret, saved, vox, seg, gr, rle>>

\* the writer's header.XyztUnits for the image
PackUnits ==
    /\ cx.pc = "split"
    /\ cx' = [cx EXCEPT !.pc = "packed",
                        !.out = convertSpaceTimeToXYZT(img.XYZUnits, img.TimeUnits)]
    /\ UNCHANGED <<native, wrapNeg, rd, img, wr, sink, ret, saved, vox, seg, gr, rle>>

NextUnits ==
    \/ \E v \in 0..255 : SplitUnits(v)
    \/ PackUnits

SpecUnits == InitUnits /\ [][NextUnits]_vars

----------------------------------------------------------------------------
(* Integer byte swaps                                                      *)

\* An integer of width w is the sequence of its w bytes, least significant
\* first, so that 64-bit values are kept at full width.

\* binary.<bo>.PutUintN(b, in): the bytes in memory
PutBytes(in, bo) == IF bo = "LE" THEN in ELSE Reverse(in)

\* binary.<bo>.UintN(b) of the first n bytes of b, widened to w bytes
UintOf(b, n, w, bo) ==
    LET val == PutBytes(SubSeq(b, 1, n), bo)
    IN  [i \in 1..w |-> IF i <= n THEN val[i] ELSE 0]

swapInt16(in) ==
    IF native = "LE" THEN UintOf(PutBytes(in, "LE"), 2, 2, "BE")
    ELSE UintOf(PutBytes(in, "BE"), 2, 2, "LE")

\* the little-endian branch reads the buffer back with BigEndian.Uint16
swapInt32(in) ==
    IF native = "LE" THEN UintOf(PutBytes(in, "LE"), 2, 4, "BE")
    ELSE UintOf(PutBytes(in, "BE"), 4, 4, "LE")

swapInt64(in) ==
    IF native = "LE" THEN UintOf(PutBytes(in, "LE"), 8, 8, "BE")
    ELSE UintOf(PutBytes(in, "BE"), 8, 8, "LE")

\* the swap of the argument's width
SwapOf(in) ==
    CASE Len(in) = 2 -> swapInt16(in)
      [] Len(in) = 4 -> swapInt32(in)
      [] OTHER -> swapInt64(in)

\* the integers of each width whose bytes are 0, 1 or 255
SwapInts == UNION {[1..w -> {0, 1, 255}] : w \in {2, 4, 8}}

InitSwap ==
    /\ native \in {"LE", "BE"} /\ wrapNeg = FALSE
    /\ rd = NoReader /\ img = EmptyNii /\ wr = NoWriter /\ sink = NoSink
    /\ ret = NoRet /\ saved = EmptyNii
    /\ vox = [given |-> NoVoxels, got |-> NoVoxels]
    /\ seg = NoSeg /\ gr = NoGrid /\ rle = NoRLE
    /\ \E in \in SwapInts : cx = [NoCodec EXCEPT !.pc = "int", !.bytes = in, !.out = in]

\* out = swap(in)
Swap ==
    /\ cx.pc = "int"
    /\ cx' = [cx EXCEPT !.pc = "swapped", !.out = SwapOf(cx.bytes)]
    /\ UNCHANGED <<native, wrapNeg, rd, img, wr, sink, ret, saved, vox, seg, gr, rle>>

\* out = swap(out)
SwapBack ==
    /\ cx.pc = "swapped"
    /\ cx' = [cx EXCEPT !.pc = "restored", !.out = SwapOf(cx.out)]
    /\ UNCHANGED <<native, wrapNeg, rd, img, wr, sink, ret, saved, vox, seg, gr, rle>>

NextSwap == Swap \/ SwapBack

SpecSwap == InitSwap /\ [][NextSwap]_vars

----------------------------------------------------------------------------
(* Empty volumes                                                           *)

\* the running product over the extents from the i-th on, skipping those
\* that are not positive
RECURSIVE TimesPositive(_, _, _)
TimesPositive(bDataLength, dim, i) ==
    IF i > Len(dim) THEN bDataLength
    ELSE TimesPositive(IF dim[i] > 0 THEN bDataLength * dim[i] ELSE bDataLength,
                       dim, i + 1)

\* make([]byte, n, n): a zero-filled slice is given by its length
MakeBytes(n) ==
    IF n < 0 THEN [err |-> "panic", len |-> 0] ELSE [err |-> "nil", len |-> n]

\* MakeEmptyImageFromImg: Nx * Ny is an int64 product
MakeEmptyImageFromImg(im) ==
    IF im.N[1] = 0 THEN [err |-> "x dimension must not be zero", len |-> 0]
    ELSE IF im.N[2] = 0 THEN [err |-> "y dimension must not be zero", len |-> 0]
    ELSE MakeBytes(TimesPositive(im.N[1] * im.N[2], im.N, 3)
                   * AssignDatatypeSize(im.Datatype))

\* MakeEmptyImageFromHdr: Dim[1] * Dim[2] is an int16 product, widened after
MakeEmptyImageFromHdr(hdr) ==
    IF hdr.dim[2] = 0 THEN [err |-> "x dimension must not be zero", len |-> 0]
    ELSE IF hdr.dim[3] = 0 THEN [err |-> "y dimension must not be zero", len |-> 0]
    ELSE MakeBytes(TimesPositive(ToInt16(hdr.dim[2] * hdr.dim[3]), hdr.dim, 4)
                   * AssignDatatypeSize(hdr.datatype))

\* the extents the two functions are called with
EmptyShapes ==
    {<<x, y, z, t, 1, 1, 1>> :
        x \in {0, 1, 2, 182, 240, 256}, y \in {0, 1, 2, 182, 240, 256},
        z \in {-1, 0, 2}, t \in {1, 2}}

\* a NIfTI-1 header and an image with the same extents and datatype
InitEmpty ==
    /\ native = "LE" /\ wrapNeg = FALSE
    /\ rd = NoReader /\ sink = NoSink /\ ret = NoRet /\ saved = EmptyNii
    /\ vox = [given |-> NoVoxels, got |-> NoVoxels]
    /\ cx = NoCodec /\ seg = NoSeg /\ gr = NoGrid /\ rle = NoRLE
    /\ \E sh \in EmptyShapes, dtbp \in {<<"UINT8", 8>>, <<"INT16", 16>>} :
          /\ wr = [NoWriter EXCEPT !.header =
                      InputHeader(1, "LE", Plain,
                                  [BaseVariant EXCEPT !.shape = sh, !.dtbp = dtbp], FALSE)]
          /\ img = [EmptyNii EXCEPT !.N = sh, !.Datatype = dtbp[1]]

EmptyFromHdr ==
    /\ ret.op = "init"
    /\ LET b == MakeEmptyImageFromHdr(wr.header)
       IN  ret' = [op |-> "MakeEmptyImageFromHdr", err |-> b.err, val |-> b.len]
    /\ UNCHANGED <<native, wrapNeg, rd, img, wr, sink, saved, vox, cx, seg, gr, rle>>

EmptyFromImg ==
    /\ ret.op = "init"
    /\ LET b == MakeEmptyImageFromImg(img)
       IN  ret' = [op |-> "MakeEmptyImageFromImg", err |-> b.err, val |-> b.len]
    /\ UNCHANGED <<native, wrapNeg, rd, img, wr, sink, saved, vox, cx, seg, gr, rle>>

NextEmpty == EmptyFromHdr \/ EmptyFromImg

SpecEmpty == InitEmpty /\ [][NextEmpty]_vars

----------------------------------------------------------------------------
(* Properties                                                              *)

\* the fields a write followed by a read is to preserve
KeptFields(im) ==
    [Version |-> im.Version, NDim |-> im.NDim, N |-> im.N,
     Datatype |-> im.Datatype, NByPer |-> im.NByPer,
     SclSlope |-> im.SclSlope, SclInter |-> im.SclInter,
     QuaternB |-> im.QuaternB, QformCode |-> im.QformCode,
     SformCode |-> im.SformCode, IntentP1 |-> im.IntentP1,
     SliceCode |-> im.SliceCode, SliceStart |-> im.SliceStart,
     SliceEnd |-> im.SliceEnd, TOffset |-> im.TOffset,
     XYZUnits |-> im.XYZUnits, TimeUnits |-> im.TimeUnits,
     Volume |-> im.Volume]

\* the image's extents, datatype and Volume agree with one another
WellFormed(im) ==
    /\ im.NDim \in 1..7
    /\ \A i \in 1..7 : im.N[i] >= 1
    /\ im.Datatype \in Datatypes
    /\ im.NByPer = AssignDatatypeSize(im.Datatype)
    /\ Len(im.Volume) = im.N[1] * im.N[2] * im.N[3] * im.N[4] * im.N[5] * im.NByPer

\* a well-formed image has just been parsed from what the single-file
\* writer emitted for it
ReadBackSingle ==
    /\ ret.op = "Parse" /\ rd.src = "sink"
    /\ sink.kind = "single" /\ wr.version \in {1, 2}
    /\ WellFormed(saved)

\* C1: parsing the bytes the single-file writer emitted, for version 1 and
\* version 2, succeeds and yields the image that was written in every
\* preserved field and in the Volume bytes.
C1_RoundTrip ==
    ReadBackSingle =>
        /\ ret.err = "nil"
        /\ KeptFields([img EXCEPT !.Version = 0])
             = KeptFields([saved EXCEPT !.Version = 0])
        /\ img.Version \in {saved.Version, wr.version}

\* C2: with slope 0 and intercept 0, GetAt of the bytes ConvertVoxelToBytes
\* produced returns exactly the value that was encoded, for every supported
\* datatype, both byte orders and every representable value.
C2_CodecRoundTrip ==
    /\ cx.pc \in {"encoded", "decoded"} => cx.err = "nil"
    /\ cx.pc = "decoded" => cx.out = cx.v

\* every value of the grid, rescaled as the image prescribes, is one the
\* image's datatype represents
Faithful(im, g) ==
    \A i \in 1..Len(g.voxel) :
        Representable(im.Datatype,
                      IF im.SclSlope = 0 THEN g.voxel[i]
                      ELSE (g.voxel[i] - FromInt(im.SclInter)) \div im.SclSlope)

\* C3: when the image's datatype represents every grid value,
\* SetVoxelToRawVolume(grid) followed by GetVoxels returns the grid that was
\* passed in, element for element.
C3_SetThenGetVoxels ==
    (ret.op = "GetVoxels" /\ ret.val = 1 /\ Faithful(img, vox.given)) =>
        /\ ret.err = "nil"
        /\ vox.got = vox.given

\* C4: Parse returns an error for every header whose dim[0] is outside
\* [1,7], so every successfully parsed image has NDim in [1,7].
C4_DimZeroRejected ==
    (ret.op = "Parse" /\ rd.src = "input") =>
        /\ HStream(rd).hdr.dim[1] \notin 1..7 => ret.err # "nil"
        /\ ret.err = "nil" => img.NDim \in 1..7

AllowedMagic(layout) ==
    IF layout = 1 THEN {NIFTI_1_MAGIC_SINGLE, NIFTI_1_MAGIC_PAIR}
    ELSE {NIFTI_2_MAGIC_SINGLE, NIFTI_2_MAGIC_PAIR}

\* C5: Parse reports an invalid magic exactly when the magic of a 348-byte
\* or 540-byte header is not one of the two allowed for its length; a
\* NIfTI-2 header with the "ni2" magic is accepted.
C5_MagicValidation ==
    (ret.op = "Parse" /\ rd.src = "input"
       /\ HStream(rd).hdr.sizeof_hdr = StructSize(HStream(rd).hdr.layout)) =>
        (ret.err \in {"invalid NIFTI-1 magic string", "invalid NIFTI-2 magic string"}
           <=> HStream(rd).hdr.magic \notin AllowedMagic(HStream(rd).hdr.layout))

\* C6: every successfully parsed image has NByPer equal to the header's
\* bitpix / 8 and NVox equal to the product of Dim[1..NDim].
C6_NByPerAndNVox ==
    (Parsed /\ rd.src = "input") =>
        /\ img.NByPer = Quot(HStream(rd).hdr.bitpix, 8)
        /\ img.NDim \in 0..7 => img.NVox = NVoxOf(img.Dim, img.NDim)

\* C7: after a successful Parse, GetAt at a coordinate inside the extents
\* reads inside Volume and returns a value.
C7_GetAtInBounds ==
    ret.op = "GetAt" => ret.err = "nil"

\* what the writer is to put in the magic field
WantedMagic(version, pair) ==
    IF version = 1
    THEN (IF pair THEN <<110, 105, 49, 0>> ELSE <<110, 43, 49, 0>>)
    ELSE (IF pair THEN <<110, 105, 50, 0, 13, 10, 26, 10>>
          ELSE <<110, 43, 50, 0, 13, 10, 26, 10>>)

\* C8: a paired write emits the "ni1"/"ni2" magic and vox_offset 0 to the
\* header sink, a version-1 header of 348 bytes, and exactly the Volume
\* bytes to the image sink; a single-file write emits the "n+1"/"n+2" magic.
C8_WriterMagicAndOffset ==
    (ret.op = "WriteToFile" /\ ret.err = "nil") =>
        /\ wr.header.magic = WantedMagic(wr.version, wr.writeHeaderFile)
        /\ wr.writeHeaderFile =>
              /\ wr.header.vox_offset = 0
              /\ wr.version = 1 => StreamLen(sink.hdr) = NII1HeaderSize
              /\ sink.img = [hdr |-> NoHdr, tail |-> saved.Volume]

\* C9: in a single-file output the recorded vox_offset is the offset of the
\* first voxel byte: the length of the emitted header plus the padding.
C9_VoxOffsetIsDataStart ==
    (ret.op = "WriteToFile" /\ ret.err = "nil" /\ sink.kind = "single") =>
        wr.header.vox_offset = HdrLen(sink.img) + sink.pad

\* C10: WriteToFile returns an error and emits nothing when the header it
\* would write has bitpix <= 0.
C10_RejectsZeroBitpix ==
    (ret.op = "WriteToFile" /\ wr.version \in {1, 2} /\ saved.NByPer * 8 <= 0) =>
        /\ ret.err = "invalid header"
        /\ sink = NoSink

\* the header the writer emitted, in the header sink or at the head of the file
EmittedHeader == IF sink.kind = "pair" THEN sink.hdr.hdr ELSE sink.img.hdr

\* C11: when a predefined header was supplied to the writer, WriteToFile
\* emits that header; the image is converted to a header only when none
\* was supplied.
C11_SuppliedHeaderEmitted ==
    (ret.op = "WriteToFile" /\ ret.err = "nil" /\ wr.given # NoHdr) =>
        EmittedHeader = wr.given

RECURSIVE SumOf(_)
SumOf(q) == IF q = <<>> THEN 0 ELSE Head(q) + SumOf(Tail(q))

\* the index, from 0, of the run of EncodedSeg that position k falls in
RECURSIVE RunOf(_, _, _)
RunOf(enc, k, idx) ==
    IF k <= Trunc(enc[idx + 1]) THEN idx
    ELSE RunOf(enc, k - Trunc(enc[idx + 1]), idx + 1)

\* every non-zero entry of q is pix
OnlyPix(q, pix) == \A i \in 1..Len(q) : q[i] \in {0, pix}

\* C12: decoding RLEEncode(seq) with PixVal = pix returns seq when the
\* non-zero entries of the non-empty seq all equal pix; and whatever was
\* encoded, the decoded length is the sum of the run lengths, with pix in
\* the runs of odd index and 0 in those of even index.
C12_RLERoundTrip ==
    rle.pc = "decoded" =>
        /\ OnlyPix(rle.orig, rle.PixVal) => rle.DecodedSeg = rle.orig
        /\ FromInt(Len(rle.DecodedSeg)) = SumOf(rle.EncodedSeg)
        /\ \A k \in 1..Len(rle.DecodedSeg) :
              rle.DecodedSeg[k] =
                  IF RunOf(rle.EncodedSeg, k, 0) % 2 = 1 THEN rle.PixVal ELSE 0

\* a sequence that starts with pix and has zeros inside has been encoded,
\* with a leading 0 run, and decoded
C12_Witness ==
    /\ rle.pc = "decoded"
    /\ Len(rle.orig) = MaxSeq
    /\ rle.orig[1] = rle.PixVal /\ rle.orig[2] = rle.PixVal /\ rle.orig[3] = 0
    /\ OnlyPix(rle.orig, rle.PixVal)
    /\ rle.EncodedSeg[1] = 0 /\ rle.EncodedSeg[2] = FromInt(2)

\* C13: after ImportAsRLE and ExportSingleFromRLE every voxel that was
\* non-zero at (x, y, z, t) appears at (x, y, dimZ-1-z, t) with its label.
C13_ImportExportRLE ==
    (gr.pc = "exported" /\ gr.segs # <<>>) =>
        /\ gr.err = "nil"
        /\ \A c \in Coords(gr.orig.dimX, gr.orig.dimY, gr.orig.dimZ, gr.orig.dimT) :
              VoxGet(gr.orig, c[1], c[2], c[3], c[4]) # 0 =>
                  VoxGet(gr.v, c[1], c[2], gr.orig.dimZ - 1 - c[3], c[4])
                      = VoxGet(gr.orig, c[1], c[2], c[3], c[4])

\* the position along each axis that a flip of that axis moves c to
Mirror(axis, c, v) ==
    CASE axis = "X" -> <<v.dimX - 1 - c[1], c[2], c[3], c[4]>>
      [] axis = "Y" -> <<c[1], v.dimY - 1 - c[2], c[3], c[4]>>
      [] OTHER -> <<c[1], c[2], v.dimZ - 1 - c[3], c[4]>>

\* C16: one FlipX, FlipY or FlipZ moves the value at index i of its axis
\* to dim-1-i and leaves the other coordinates alone; the same flip twice
\* gives back the original grid.
C16_FlipInvolution ==
    /\ (Len(gr.ops) = 1) =>
          \A c \in Coords(gr.v.dimX, gr.v.dimY, gr.v.dimZ, gr.v.dimT) :
              LET m == Mirror(gr.ops[1], c, gr.v)
              IN  VoxGet(gr.v, m[1], m[2], m[3], m[4])
                      = VoxGet(gr.orig, c[1], c[2], c[3], c[4])
    /\ (Len(gr.ops) = 2 /\ gr.ops[1] = gr.ops[2]) => gr.v = gr.orig

\* a grid of odd extent 3 along x, with different values at its two ends,
\* has been flipped along x twice
C16_Witness ==
    /\ gr.ops = <<"X", "X">>
    /\ gr.orig.dimX = 3
    /\ gr.orig.voxel[1] # gr.orig.voxel[3]
    /\ gr.v = gr.orig

\* the number of distinct values among the first i annotations
DistinctUpTo(annotations, i) ==
    Cardinality({annotations[k].Value : k \in 1..i})

\* the position of the first annotation that carries the value of the i-th
FirstOf(annotations, i) ==
    CHOOSE k \in 1..i : /\ annotations[k].Value = annotations[i].Value
                        /\ \A j \in 1..(k - 1) : annotations[j].Value # annotations[i].Value

\* no two annotations name the same voxel
DistinctCoords(annotations) ==
    \A i, j \in 1..Len(annotations) :
        annotations[i].X = annotations[j].X => i = j

\* C14: the converter gives the n-th distinct value, in list order, the
\* label n, so two coordinates carry the same label exactly when they
\* carry the same value.
C14_LabelCompression ==
    (seg.pc = "done" /\ seg.err = "nil" /\ DistinctCoords(seg.annotations)) =>
        \A i \in 1..Len(seg.annotations) :
            LET a == seg.annotations[i]
            IN  VoxGet(seg.vox, a.X, a.Y, a.Z, a.T)
                    = FromInt(DistinctUpTo(seg.annotations, FirstOf(seg.annotations, i)))

\* C15: with no header the conversion returns an error; with a NIfTI-2
\* header, alone or beside a NIfTI-1 header, it completes on the NIfTI-2
\* header's dims and datatype and reads nothing of the NIfTI-1 header.
C15_HeaderSelection ==
    (seg.pc = "done" /\ seg.annotations # <<>>) =>
        /\ (seg.nii1Hdr.layout = 0 /\ seg.nii2Hdr.layout = 0) =>
              seg.err = "at least one header structure must be specified"
        /\ seg.nii2Hdr.layout # 0 =>
              /\ seg.err = "nil"
              /\ seg.vox.datatype = seg.nii2Hdr.datatype
              /\ Len(seg.rawImg)
                   = seg.nii2Hdr.dim[2] * seg.nii2Hdr.dim[3] * seg.nii2Hdr.dim[4]
                     * seg.nii2Hdr.dim[5] * AssignDatatypeSize(seg.nii2Hdr.datatype)

\* C17: SetAt returns an error and leaves Volume as it was when the voxel's
\* byte range is not inside Volume or the value cannot be encoded;
\* otherwise it changes no byte outside that range.
C17_SetAtFrame ==
    ret.op = "SetAt" =>
        LET lo == ret.val * saved.NByPer
            hi == (ret.val + 1) * saved.NByPer
            inside == lo >= 0 /\ hi <= Len(saved.Volume)
            encodable == saved.NByPer \in {1, 2, 4, 8}
        IN  IF inside /\ encodable
            THEN /\ ret.err = "nil"
                 /\ Len(img.Volume) = Len(saved.Volume)
                 /\ \A k \in 1..Len(saved.Volume) :
                       (k <= lo \/ k > hi) => img.Volume[k] = saved.Volume[k]
                 /\ [img EXCEPT !.Volume = <<>>] = [saved EXCEPT !.Volume = <<>>]
            ELSE /\ ret.err \notin {"nil", "panic"}
                 /\ img = saved

\* the text field a string setter is to fill, its width and its limit
TextField(op) ==
    CASE op = "SetDescrip" -> [name |-> "Descrip", width |-> 80, limit |-> 79]
      [] op = "SetAuxFile" -> [name |-> "AuxFile", width |-> 24, limit |-> 23]
      [] OTHER -> [name |-> "IntentName", width |-> 16, limit |-> 15]

\* C18: a string setter accepts exactly the strings of at most 79
\* (SetDescrip), 15 (SetIntentName) and 23 (SetAuxFile) bytes; an accepted
\* string is stored NUL-padded in its own field and nothing else changes; a
\* rejected one leaves the image as it was.
C18_StringSetters ==
    ret.op \in {"SetDescrip", "SetIntentName", "setIntentName", "SetAuxFile"} =>
        LET f == TextField(ret.op)
        IN  IF Len(ret.val) <= f.limit
            THEN /\ ret.err = "nil"
                 /\ img = [saved EXCEPT ![f.name] = Pad(ret.val, f.width)]
            ELSE /\ ret.err # "nil"
                 /\ img = saved

\* the code field a code setter is to fill and its table
CodeField(op) ==
    CASE op = "SetSliceCode" -> [name |-> "SliceCode", table |-> NiiSliceAcquistionInfo]
      [] op = "SetQFormCode" -> [name |-> "QformCode", table |-> NiiPatientOrientationInfo]
      [] op = "SetSFormCode" -> [name |-> "SformCode", table |-> NiiPatientOrientationInfo]
      [] OTHER -> [name |-> "Datatype", table |-> ValidDatatype]

\* C19: a code setter stores the code and returns nil exactly when the code
\* passed in is in the setter's table, whatever code is stored; otherwise it
\* returns an error and the stored code stays.
C19_CodeSetters ==
    ret.op \in {"SetSliceCode", "SetQFormCode", "SetSFormCode", "SetDatatype"} =>
        LET f == CodeField(ret.op)
        IN  IF ret.val \in f.table
            THEN /\ ret.err = "nil"
                 /\ img = [saved EXCEPT ![f.name] = ret.val]
            ELSE /\ ret.err # "nil"
                 /\ img = saved

\* C20: when the image stream holds fewer than data_size bytes from
\* vox_offset, Parse returns an error and leaves the image unpopulated: no
\* Volume, no retained header, every metadata field as before the parse; a
\* Parse that returns nil found every byte of its Volume in the stream.
C20_ShortRead ==
    /\ Parsed => Len(img.Volume) <= StreamLen(rd.stream) - img.VoxOffset
    /\ (/\ ret.op = "Parse"
        /\ ret.err \in {"EOF", "unexpected EOF"}
        /\ rd.version \in {1, 2}
        /\ StreamLen(HStream(rd)) >= StructSize(rd.version))
       => /\ img.Volume = <<>>
          /\ rd.header = NoHdr
          /\ img = EmptyNii

\* what a new reader over the streams of r makes of them
FreshParse(r) ==
    ParseOf(NewReader([paired |-> r.paired, hstream |-> r.hstream,
                       stream |-> r.stream], FALSE, r.src), EmptyNii)

\* C21: after a Parse that failed on an unrecognised sizeof_hdr, the caller
\* gives the reader other bytes and parses again; when those bytes are a
\* valid file, of either byte order, the second Parse succeeds with the
\* version, byte order and image a new reader would produce.
C21_RetryAfterFormatError ==
    (/\ ret.op = "ParseAgain"
     /\ rd.src = "retry"
     /\ ~rd.paired
     /\ ret.val = "invalid NIFTI file format"
     /\ FreshParse(rd).err = "nil")
    => /\ ret.err = "nil"
       /\ rd.version = FreshParse(rd).rd.version
       /\ rd.binaryOrder = FreshParse(rd).rd.binaryOrder
       /\ img = FreshParse(rd).img

\* the first int32 of the header stream of r, read in order bo
SizeofHdrAs(r, bo) == ReadInt(HStream(r).hdr.sizeof_hdr, 4, HStream(r).hdr.order, bo)

\* C22: the probe reads the first int32 as little-endian; the version is 1
\* iff it is 348 and 2 iff it is 540; only when neither matches is it read
\* again from offset 0 as big-endian; when that matches neither, Parse
\* returns the format error and no version is recorded. After a successful
\* Parse the reader's byte order is the one under which sizeof_hdr matched.
C22_ProbeStateMachine ==
    (/\ ret.op \in {"Parse", "ParseAgain"}
     /\ HStream(rd).hdr.layout # 0)
    => LET le == VersionOf(SizeofHdrAs(rd, "LE"))
           be == VersionOf(SizeofHdrAs(rd, "BE"))
       IN  /\ (le = 0 /\ be = 0)
                  => ret.err = "invalid NIFTI file format" /\ rd.version = 0
           /\ ret.err = "nil"
                  => /\ rd.version = IF le # 0 THEN le ELSE be
                     /\ rd.binaryOrder = IF le # 0 THEN "LE" ELSE "BE"

\* C23: a second Parse on the same reader, with nothing called in between,
\* succeeds whenever the first did and gives the same version, byte order
\* and image.
C23_ParseRepeatable ==
    (/\ ret.op = "ParseAgain"
     /\ rd.src = "input"
     /\ ret.val = "nil")
    => /\ ret.err = "nil"
       /\ img = saved
       /\ rd.version = FreshParse(rd).rd.version
       /\ rd.binaryOrder = FreshParse(rd).rd.binaryOrder

\* C24: every header WriteToFile emits, of either version, single or
\* paired, has dim[i] >= 1 for 1 <= i <= 7: a non-positive extent of the
\* image is written as 1.
C24_WriterCoercesDims ==
    (ret.op = "WriteToFile" /\ ret.err = "nil") =>
        \A i \in 1..7 : EmittedHeader.dim[i + 1] >= 1

\* the i-th annotation carries a value that an earlier one carried
SeenBefore(annotations, i) ==
    \E j \in 1..(i - 1) : annotations[j].Value = annotations[i].Value

C26_UnitsSplitAndPack ==
    /\ cx.pc \in {"split", "packed"} =>
          /\ img.XYZUnits = cx.v % 8
          /\ img.TimeUnits = ((cx.v \div 8) % 8) * 8
    /\ cx.pc = "packed" => cx.out = cx.v % 64

\* C27: ExportSingleFromRLE writes no label of its own making: a voxel of
\* the result is non-zero only when a segment whose ZIndex is dimZ-1-z and
\* whose TIndex is the voxel's own t has a foreground run over (x, y); a
\* label present at one time only appears at no other time.
C27_NoSpuriousLabels ==
    (gr.pc = "exported" /\ gr.err = "nil") =>
        \A c \in Coords(gr.v.dimX, gr.v.dimY, gr.v.dimZ, gr.v.dimT) :
            VoxGet(gr.v, c[1], c[2], c[3], c[4]) # 0 =>
                \E n \in 1..Len(gr.segs) :
                    /\ Trunc(gr.segs[n].ZIndex) = gr.v.dimZ - 1 - c[3]
                    /\ Trunc(gr.segs[n].TIndex) = c[4]
                    /\ DecodeRuns(gr.segs[n].EncodedSeg, gr.segs[n].PixVal, 0)
                           [c[2] * gr.v.dimX + c[1] + 1] # 0

\* C28: GetTimeSeries(x, y, z) returns an error for a coordinate with
\* x >= Nx, y >= Ny or z >= Nz, and for a coordinate inside the grid the Nt
\* values GetAt(x, y, z, t), t = 0..Nt-1, with no access out of range,
\* whatever the shape.
C28_TimeSeriesBounds ==
    ret.op = "GetTimeSeries" =>
        LET x == ret.val.c[1]
            y == ret.val.c[2]
            z == ret.val.c[3]
        IN  /\ (x >= img.N[1] \/ y >= img.N[2] \/ z >= img.N[3])
                   => ret.err \notin {"nil", "panic"}
            /\ (/\ 0 <= x /\ x < img.N[1] /\ 0 <= y /\ y < img.N[2]
                /\ 0 <= z /\ z < img.N[3])
                   => /\ ret.err = "nil"
                      /\ ret.val.series
                           = [t \in 1..img.N[4] |-> GetAtOf(img, x, y, z, t - 1).val]

\* C29: swapInt16, swapInt32 and swapInt64 reverse the bytes of their
\* argument at its full width, so swapping twice gives the argument back.
C29_SwapInvolution ==
    /\ cx.pc = "swapped" => cx.out = Reverse(cx.bytes)
    /\ cx.pc = "restored" => cx.out = cx.bytes

\* the product of the positive entries of q
RECURSIVE PositiveProduct(_)
PositiveProduct(q) ==
    IF q = <<>> THEN 1
    ELSE (IF Head(q) > 0 THEN Head(q) ELSE 1) * PositiveProduct(Tail(q))

\* C30: for a header with Dim[1], Dim[2] > 0, MakeEmptyImageFromHdr returns
\* a buffer of exactly Dim[1] * Dim[2] * (the positive Dim[3..7]) * NByPer
\* bytes, with no overflow for any int16 extent, the length
\* MakeEmptyImageFromImg returns for the same extents and datatype.
C30_EmptyImageLength ==
    (/\ ret.op = "MakeEmptyImageFromHdr"
     /\ wr.header.dim[2] > 0 /\ wr.header.dim[3] > 0)
    => /\ ret.err = "nil"
       /\ ret.val = wr.header.dim[2] * wr.header.dim[3]
                      * PositiveProduct(SubSeq(wr.header.dim, 4, 8))
                      * AssignDatatypeSize(wr.header.datatype)
       /\ MakeEmptyImageFromImg(img) = [err |-> ret.err, len |-> ret.val]

====
